---- MODULE Spec2Model ----
(***************************************************************************)
(* A model of mrbgpdv2: the per-peer event-driven state machine            *)
(* (src/src/peer.rs), its event queue (src/src/event_queue.rs) and the     *)
(* three RIBs (src/src/routing.rs).                                        *)
(*                                                                         *)
(* Two peers form a pair as in the tests of peer.rs: peer 1 is Active      *)
(* (AS 64512, 127.0.0.1), peer 2 is Passive (AS 64513, 127.0.0.2).  Each   *)
(* peer belongs to its own speaker and so has its own LocRib.              *)
(***************************************************************************)
EXTENDS Integers, Sequences, FiniteSets, TLC

VARIABLES
    state,          \* Peer.state
    event_queue,    \* Peer.event_queue, a VecDeque: index 1 is the front
    tcp_connection, \* Peer.tcp_connection: TRUE is Some(conn), FALSE is None
    loc_rib,        \* the LocRib of the peer's speaker
    adj_rib_out,    \* Peer.adj_rib_out
    adj_rib_in,     \* Peer.adj_rib_in
    rcv,            \* messages sent to the peer that it has not yet read
    pc,             \* position of the peer's task inside Peer::next
    panicked,       \* the peer task has panicked
    connect_ok,     \* whether Connection::connect succeeds for the peer
    write_ok,       \* whether write_all on the peer's connection succeeds
    kernel_has,     \* networks that lookup_kernel_routing_table finds
    started,        \* Peer::start has been called
    ticks,          \* number of completed Peer::next calls
    injected,       \* number of messages sent by RemoteSends
    restarts,       \* number of Peer::start calls after the first of a peer
    updates_sent,   \* number of Updates the peer has sent so far
    last,           \* what the last step did
    eq,             \* an EventQueue driven by arbitrary calls (SpecQueue)
    eq_in,          \* the events enqueued into eq, in call order
    eq_out,         \* the results of the dequeue calls on eq, in call order
    lab_adj_rib_in, \* an AdjRibIn driven by arbitrary calls (SpecRib)
    lab_loc_rib,    \* a LocRib driven by arbitrary calls
    lab_adj_rib_out,\* an AdjRibOut driven by arbitrary calls
    lab_last,       \* the last call on the three and what it returned
    lab_calls,      \* number of calls made on the three
    codec_last,     \* the last conversion to bytes and back (SpecCodec)
    conn_stream,    \* the frames that the remote end writes (SpecConn)
    conn_arrived,   \* number of bytes of them that have been read
    conn_buffer,    \* Connection.buffer
    conn_got,       \* the messages that get_message has returned
    conn_stopped,   \* the task that calls get_message has panicked
    conn_last,      \* what the last get_message call did
    conn_closed,    \* the remote end closes the connection after the frames
    conn_reading,   \* the task is inside read_data_from_tcp_connection
    spk_loc_rib,    \* the LocRib that the peers of one speaker share
    spk_lock,       \* the task that holds the Mutex of it, 0 when free
    spk_adj_rib_in, \* Peer.adj_rib_in of each peer of the speaker
    spk_adj_rib_out,\* Peer.adj_rib_out of each
    spk_queue,      \* Peer.event_queue of each
    spk_pc,         \* where the task of each stands in Peer::next
    spk_todo,       \* the routes the kernel write of each has yet to add
    spk_attempted,  \* the routes the last kernel write of each tried to add
    spk_kernel,     \* the networks added to the kernel routing table
    spk_fail,       \* the networks whose addition the kernel refuses
    spk_netlink_ok, \* whether new_connection of rtnetlink succeeds
    spk_sending,    \* the Updates each has yet to send in AdjRibOutChanged
    spk_sent,       \* the Updates each has sent
    spk_received,   \* number of Updates each has received
    spk_added       \* the entries the last install of each added to the LocRib

peerVars == <<state, event_queue, tcp_connection, loc_rib, adj_rib_out,
              adj_rib_in, rcv, pc, panicked, connect_ok, write_ok,
              kernel_has, started, ticks, injected, restarts, updates_sent,
              last>>
queueVars == <<eq, eq_in, eq_out>>
ribVars == <<lab_adj_rib_in, lab_loc_rib, lab_adj_rib_out, lab_last,
             lab_calls>>
codecVars == <<codec_last>>
connVars == <<conn_stream, conn_arrived, conn_buffer, conn_got,
              conn_stopped, conn_last, conn_closed, conn_reading>>
spkVars == <<spk_loc_rib, spk_lock, spk_adj_rib_in, spk_adj_rib_out,
             spk_queue, spk_pc, spk_todo, spk_attempted, spk_kernel,
             spk_fail, spk_netlink_ok, spk_sending, spk_sent, spk_received,
             spk_added>>
vars == <<peerVars, queueVars, ribVars, codecVars, connVars, spkVars>>

-----------------------------------------------------------------------------
(* Bounds *)

\* ticks counts completed Peer::next calls up to this value and then stays.
TickCap == 3
\* Number of messages the remote speaker sends besides those of its own
\* state machine.
MaxInject == 1
\* Number of enqueue/dequeue calls on the stand-alone EventQueue.
MaxQueueOps == 5
\* Number of calls on the stand-alone RIBs.
MaxRibCalls == 5
\* Largest number of AS numbers in an AsPath that is converted to bytes.
MaxAses == 127
\* Largest number of frames in the stream that a Connection reads.
MaxFrames == 2
\* Number of Updates that each peer of the shared speaker receives.
MaxUpdates == 1
\* Number of calls of Peer::start after the first of each peer.
MaxRestarts == 1

-----------------------------------------------------------------------------
(* Configuration: the configs of the tests in peer.rs *)

Peers == {1, 2}
Remote(p) == 3 - p

AS64512 == 64512
AS64513 == 64513
\* An AS that is neither peer's, carried by routes learned elsewhere.
AS64514 == 64514

NetA == "10.100.220.0/24"
NetB == "10.100.221.0/24"
Nets == {NetA, NetB}

Config ==
    [p \in Peers |->
        IF p = 1
        THEN [local_as |-> AS64512, local_ip |-> "127.0.0.1",
              remote_as |-> AS64513, remote_ip |-> "127.0.0.2",
              mode |-> "Active", networks |-> {NetA}]
        ELSE [local_as |-> AS64513, local_ip |-> "127.0.0.2",
              remote_as |-> AS64512, remote_ip |-> "127.0.0.1",
              mode |-> "Passive", networks |-> {NetB}]]

-----------------------------------------------------------------------------
(* Path attributes.  Every attribute is a record of the same shape; the    *)
(* fields that a variant does not use hold a default.  An AsSet is a       *)
(* BTreeSet, modelled as a strictly increasing sequence.                   *)

Origin(o) == [type |-> "Origin", origin |-> o, kind |-> "", ases |-> <<>>,
              ip |-> ""]
AsSequence(s) == [type |-> "AsPath", origin |-> "", kind |-> "AsSequence",
                  ases |-> s, ip |-> ""]
AsSet(s) == [type |-> "AsPath", origin |-> "", kind |-> "AsSet",
             ases |-> s, ip |-> ""]
NextHop(a) == [type |-> "NextHop", origin |-> "", kind |-> "", ases |-> <<>>,
               ip |-> a]

Range(s) == {s[i] : i \in 1..Len(s)}

\* BTreeSet::insert on the sorted sequence s
RECURSIVE SortedInsert(_, _)
SortedInsert(s, a) ==
    IF s = <<>> THEN <<a>>
    ELSE IF a = Head(s) THEN s
    ELSE IF a < Head(s) THEN <<a>> \o s
    ELSE <<Head(s)>> \o SortedInsert(Tail(s), a)

\* AsPath::does_contain
AsPathDoesContain(as_path, as_number) == as_number \in Range(as_path.ases)

\* AsPath::push, putting the number in front of a sequence
AsPathPushFront(as_path, as_number) ==
    IF as_path.kind = "AsSequence"
    THEN [as_path EXCEPT !.ases = <<as_number>> \o @]
    ELSE [as_path EXCEPT !.ases = SortedInsert(@, as_number)]

\* AsPath::push
AsPathPush(as_path, as_number) ==
    IF as_path.kind = "AsSequence"
    THEN [as_path EXCEPT !.ases = Append(@, as_number)]
    ELSE [as_path EXCEPT !.ases = SortedInsert(@, as_number)]

-----------------------------------------------------------------------------
(* Rib: a HashMap from RibEntry to RibEntryStatus, modelled as a function  *)
(* whose domain is the set of entries present.                             *)

RibEntry(network, attrs) ==
    [network_address |-> network, path_attributes |-> attrs]

\* Rib::new
RibNew == [e \in {} |-> "New"]

\* Rib::insert: entry(e).or_insert(New)
RibInsertOverwrite(rib, e) ==
    [x \in DOMAIN rib \cup {e} |-> IF x = e THEN "New" ELSE rib[x]]

RibInsert(rib, e) ==
    IF e \in DOMAIN rib THEN rib
    ELSE [x \in DOMAIN rib \cup {e} |-> IF x = e THEN "New" ELSE rib[x]]

RECURSIVE RibInsertAll(_, _)
RibInsertAll(rib, es) ==
    IF es = {} THEN rib
    ELSE LET e == CHOOSE x \in es : TRUE
         IN RibInsertAll(RibInsert(rib, e), es \ {e})

\* Rib::update_to_all_unchanged
UpdateToAllUnchangedOnCopy(rib) == rib

UpdateToAllUnchanged(rib) == [e \in DOMAIN rib |-> "UnChanged"]

\* Rib::routes
Routes(rib) == DOMAIN rib

\* Rib::does_contain_new_route, asking only whether the Rib has an entry
DoesContainNewRouteNonEmpty(rib) == DOMAIN rib # {}

\* Rib::does_contain_new_route
DoesContainNewRoute(rib) == \E e \in DOMAIN rib : rib[e] = "New"

\* RibEntry::does_contain_as: the first AsPath attribute decides
RECURSIVE DoesContainAs(_, _)
DoesContainAs(attrs, as_number) ==
    IF attrs = <<>> THEN FALSE
    ELSE IF Head(attrs).type = "AsPath"
         THEN AsPathDoesContain(Head(attrs), as_number)
         ELSE DoesContainAs(Tail(attrs), as_number)

-----------------------------------------------------------------------------
(* Messages and events.  All messages are records of one shape.            *)

NoAttrs == <<>>

\* Message::new_open / OpenMessage::new
NewOpen(my_as_number, my_ip_addr) ==
    [type |-> "Open", my_as_number |-> my_as_number,
     bgp_identifier |-> my_ip_addr, path_attributes |-> NoAttrs,
     network_layer_reachability_information |-> <<>>,
     withdrawn_routes |-> <<>>]

\* Message::new_keepalive / KeepaliveMessage::new
NewKeepaliveWithOpenType ==
    [type |-> "Open", my_as_number |-> 0, bgp_identifier |-> "",
     path_attributes |-> <<>>,
     network_layer_reachability_information |-> <<>>,
     withdrawn_routes |-> <<>>]

NewKeepalive ==
    [type |-> "Keepalive", my_as_number |-> 0, bgp_identifier |-> "",
     path_attributes |-> NoAttrs,
     network_layer_reachability_information |-> <<>>,
     withdrawn_routes |-> <<>>]

\* UpdateMessage::new, taking the two lists of networks in the other order
NewUpdateWithdrawnFirst(path_attributes, nlri, withdrawn_routes) ==
    [type |-> "Update", my_as_number |-> 0, bgp_identifier |-> "",
     path_attributes |-> path_attributes,
     network_layer_reachability_information |-> withdrawn_routes,
     withdrawn_routes |-> nlri]

\* UpdateMessage::new
NewUpdate(path_attributes, nlri, withdrawn_routes) ==
    [type |-> "Update", my_as_number |-> 0, bgp_identifier |-> "",
     path_attributes |-> path_attributes,
     network_layer_reachability_information |-> nlri,
     withdrawn_routes |-> withdrawn_routes]

NoMessage ==
    [type |-> "None", my_as_number |-> 0, bgp_identifier |-> "",
     path_attributes |-> NoAttrs,
     network_layer_reachability_information |-> <<>>,
     withdrawn_routes |-> <<>>]

\* enum Event; the three message events carry their message
Event(type) == [type |-> type, message |-> NoMessage]
MessageEvent(type, message) == [type |-> type, message |-> message]

\* Peer::handle_message: the event a received message becomes
EventOfMessage(message) ==
    CASE message.type = "Open" -> MessageEvent("BgpOpen", message)
      [] message.type = "Keepalive" -> MessageEvent("KeepAliveMsg", message)
      [] message.type = "Update" -> MessageEvent("UpdateMsg", message)

-----------------------------------------------------------------------------
(* EventQueue: a VecDeque; the sequence lists it from front to back.       *)

\* EventQueue::new
EventQueueNew == <<>>

\* EventQueue::enqueue: push_front
Enqueue(q, event) == <<event>> \o q

\* EventQueue::dequeue: pop_back.  The result is the pair of the value
\* returned (NoEvent for None) and the queue left.
NoEvent == Event("None")

\* The same reading the back of the queue without taking it out
DequeuePeek(q) ==
    IF q = <<>> THEN [event |-> NoEvent, queue |-> q]
    ELSE [event |-> q[Len(q)], queue |-> q]

DequeueFront(q) ==
    IF q = <<>> THEN [event |-> NoEvent, queue |-> q]
    ELSE [event |-> Head(q), queue |-> Tail(q)]

Dequeue(q) ==
    IF q = <<>> THEN [event |-> NoEvent, queue |-> q]
    ELSE [event |-> q[Len(q)], queue |-> SubSeq(q, 1, Len(q) - 1)]

-----------------------------------------------------------------------------
(* LocRib, AdjRibOut, AdjRibIn *)

\* LocRib::new: the attributes of a locally originated route
LocalPathAttributes(local_ip) ==
    <<Origin("Igp"), AsSequence(<<>>), NextHop(local_ip)>>

\* LocRib::new: one entry per configured network that the kernel routing
\* table holds (found is the set lookup_kernel_routing_table returns)
LocRibNew(config, found) ==
    RibInsertAll(RibNew,
        {RibEntry(n, LocalPathAttributes(config.local_ip)) :
            n \in config.networks \cap found})

\* LocRib::install_from_adj_rib_in
InstallFromAdjRibInNoFilter(loc, adj_in, local_as) ==
    RibInsertAll(loc, Routes(adj_in))

InstallFromAdjRibIn(loc, adj_in, local_as) ==
    RibInsertAll(loc,
        {e \in Routes(adj_in) : ~DoesContainAs(e.path_attributes, local_as)})

\* AdjRibOut::install_from_loc_rib
InstallFromLocRibNoFilter(adj_out, loc, remote_as) ==
    RibInsertAll(adj_out, Routes(loc))

InstallFromLocRib(adj_out, loc, remote_as) ==
    RibInsertAll(adj_out,
        {e \in Routes(loc) : ~DoesContainAs(e.path_attributes, remote_as)})

\* AdjRibIn::install_from_update, taking out the entries of the networks
\* that the Update withdraws
InstallFromUpdateWithdrawing(adj_in, update) ==
    LET kept == {e \in DOMAIN adj_in :
                    e.network_address \notin Range(update.withdrawn_routes)}
    IN RibInsertAll([e \in kept |-> adj_in[e]],
        {RibEntry(n, update.path_attributes) :
            n \in Range(update.network_layer_reachability_information)})

\* AdjRibIn::install_from_update: withdrawn_routes is not read
InstallFromUpdate(adj_in, update) ==
    RibInsertAll(adj_in,
        {RibEntry(n, update.path_attributes) :
            n \in Range(update.network_layer_reachability_information)})

\* All the orders in which a HashMap may list the finite set S
RECURSIVE Perms(_)
Perms(S) ==
    IF S = {} THEN {<<>>}
    ELSE UNION {{<<x>> \o s : s \in Perms(S \ {x})} : x \in S}

\* AdjRibOut::create_update_messages: the rewrite of one attribute list
RewriteAttributes(attrs, local_ip, local_as) ==
    [i \in 1..Len(attrs) |->
        IF attrs[i].type = "NextHop" THEN NextHop(local_ip)
        ELSE IF attrs[i].type = "AsPath" THEN AsPathPush(attrs[i], local_as)
        ELSE attrs[i]]

\* The networks of the entries of rib that carry the attribute list attrs
GroupNetworks(rib, attrs) ==
    {e.network_address : e \in {x \in Routes(rib) : x.path_attributes = attrs}}

\* AdjRibOut::create_update_messages: one Update per attribute list.  The
\* order of the Updates and of the networks inside each is the HashMap's:
\* the result is the set of all the vectors the call may return.
RECURSIVE UpdatesInOrder(_, _, _, _)
UpdatesInOrder(rib, order, local_ip, local_as) ==
    IF order = <<>> THEN {<<>>}
    ELSE {<<NewUpdate(RewriteAttributes(Head(order), local_ip, local_as),
                      nlri, <<>>)>> \o rest :
            nlri \in Perms(GroupNetworks(rib, Head(order))),
            rest \in UpdatesInOrder(rib, Tail(order), local_ip, local_as)}

CreateUpdateMessagesPerEntry(rib, local_ip, local_as) ==
    {[i \in 1..Len(order) |->
        NewUpdate(RewriteAttributes(order[i].path_attributes, local_ip,
                                    local_as),
                  <<order[i].network_address>>, <<>>)] :
        order \in Perms(Routes(rib))}

CreateUpdateMessages(rib, local_ip, local_as) ==
    UNION {UpdatesInOrder(rib, order, local_ip, local_as) :
            order \in Perms({e.path_attributes : e \in Routes(rib)})}

-----------------------------------------------------------------------------
(* Peer::handle_event *)

\* The arm of the two nested matches of handle_event that event type
\* `type` takes in state st; "_" is the arm that does nothing
MatchArmOnEventAlone(st, type) ==
    CASE type = "ManualStart" -> IF st = "Idle" THEN "ManualStart" ELSE "_"
      [] type = "TcpConnectionConfirmed" ->
            IF st = "Connect" THEN "TcpConnectionConfirmed" ELSE "_"
      [] type = "BgpOpen" -> IF st = "OpenSent" THEN "BgpOpen" ELSE "_"
      [] type = "KeepAliveMsg" ->
            IF st \in {"OpenConfirm", "Established"} THEN "KeepAliveMsg"
            ELSE "_"
      [] type \in {"Established", "LocRibChanged"} ->
            IF st = "Established" THEN "InstallToAdjRibOut" ELSE "_"
      [] type \in {"AdjRibOutChanged", "UpdateMsg", "AdjRibInChanged"} ->
            IF st = "Established" THEN type ELSE "_"
      [] OTHER -> "_"

\* The same with ManualStart matched in every state
MatchArmRestartsAnywhere(st, type) ==
    CASE type = "ManualStart" -> "ManualStart"
      [] st = "Connect" /\ type = "TcpConnectionConfirmed" ->
            "TcpConnectionConfirmed"
      [] st = "OpenSent" /\ type = "BgpOpen" -> "BgpOpen"
      [] st = "OpenConfirm" /\ type = "KeepAliveMsg" -> "KeepAliveMsg"
      [] st = "Established" /\ type \in {"Established", "LocRibChanged"} ->
            "InstallToAdjRibOut"
      [] st = "Established"
            /\ type \in {"AdjRibOutChanged", "UpdateMsg", "AdjRibInChanged"} ->
            type
      [] OTHER -> "_"

MatchArm(st, type) ==
    CASE st = "Idle" /\ type = "ManualStart" -> "ManualStart"
      [] st = "Connect" /\ type = "TcpConnectionConfirmed" ->
            "TcpConnectionConfirmed"
      [] st = "OpenSent" /\ type = "BgpOpen" -> "BgpOpen"
      [] st = "OpenConfirm" /\ type = "KeepAliveMsg" -> "KeepAliveMsg"
      [] st = "Established" /\ type \in {"Established", "LocRibChanged"} ->
            "InstallToAdjRibOut"
      [] st = "Established"
            /\ type \in {"AdjRibOutChanged", "UpdateMsg", "AdjRibInChanged"} ->
            type
      [] OTHER -> "_"

\* The state that the arm assigns to self.state (st when it assigns none)
TransitionSkipsOpenConfirm(st, arm) ==
    CASE arm = "ManualStart" -> "Connect"
      [] arm = "TcpConnectionConfirmed" -> "OpenSent"
      [] arm = "BgpOpen" -> "Established"
      [] arm = "KeepAliveMsg" -> "Established"
      [] OTHER -> st

TransitionStaysInConnect(st, arm) ==
    CASE arm = "ManualStart" -> "Connect"
      [] arm = "BgpOpen" -> "OpenConfirm"
      [] arm = "KeepAliveMsg" -> "Established"
      [] OTHER -> st

Transition(st, arm) ==
    CASE arm = "ManualStart" -> "Connect"
      [] arm = "TcpConnectionConfirmed" -> "OpenSent"
      [] arm = "BgpOpen" -> "OpenConfirm"
      [] arm = "KeepAliveMsg" -> "Established"
      [] OTHER -> st

\* The arm of ManualStart in Idle: base is the peer after the arm has run to
\* its end, panic the peer when the arm panics, ok whether
\* Connection::connect returns Ok.
HandleManualStartNoPanic(base, panic, q, ok) ==
    IF ok
    THEN {[base EXCEPT
            !.conn = TRUE,
            !.queue = Enqueue(q, Event("TcpConnectionConfirmed"))]}
    ELSE {[base EXCEPT !.conn = FALSE]}

HandleManualStart(base, panic, q, ok) ==
    IF ok
    THEN {[base EXCEPT
            !.conn = TRUE,
            !.queue = Enqueue(q, Event("TcpConnectionConfirmed"))]}
    ELSE {panic}

\* The outcomes of handle_event(event) for peer p, q being the queue left
\* by the dequeue.  An outcome gives the fields of the peer after the call,
\* the messages sent, and whether write_to_kernel_routing_table was called
\* (its result is dropped by the handler and changes no field of the peer).
\* A handler with several outcomes is one whose result depends on the order
\* in which a HashMap lists its entries.
HandleEvent(p, event, q) ==
    LET c == Config[p]
        st == state[p]
        arm == MatchArm(st, event.type)
        base == [state |-> Transition(st, arm), queue |-> q,
                 conn |-> tcp_connection[p], sent |-> <<>>,
                 adj_rib_out |-> adj_rib_out[p],
                 adj_rib_in |-> adj_rib_in[p], loc_rib |-> loc_rib[p],
                 panicked |-> FALSE, kernel_written |-> FALSE]
        panic == [base EXCEPT !.state = st, !.panicked = TRUE]
    IN
    CASE arm = "ManualStart" -> HandleManualStart(base, panic, q, connect_ok[p])
      [] arm = "TcpConnectionConfirmed" ->
            IF tcp_connection[p]
            THEN {[base EXCEPT
                    !.sent = <<NewOpen(c.local_as, c.local_ip)>>]}
            ELSE {panic}
      [] arm = "BgpOpen" ->
            IF tcp_connection[p]
            THEN {[base EXCEPT !.sent = <<NewKeepalive>>]}
            ELSE {panic}
      [] arm = "KeepAliveMsg" ->
            {[base EXCEPT !.queue = Enqueue(q, Event("Established"))]}
      [] arm = "InstallToAdjRibOut" ->
            LET out == InstallFromLocRib(adj_rib_out[p], loc_rib[p],
                                         c.remote_as)
            IN IF DoesContainNewRoute(out)
               THEN {[base EXCEPT
                       !.queue = Enqueue(q, Event("AdjRibOutChanged")),
                       !.adj_rib_out = UpdateToAllUnchanged(out)]}
               ELSE {[base EXCEPT !.adj_rib_out = out]}
      [] arm = "AdjRibOutChanged" ->
            LET batches == CreateUpdateMessages(adj_rib_out[p], c.local_ip,
                                                c.local_as)
            IN IF tcp_connection[p] \/ batches = {<<>>}
               THEN {[base EXCEPT !.sent = updates] : updates \in batches}
               ELSE {panic}
      [] arm = "UpdateMsg" ->
            LET in == InstallFromUpdate(adj_rib_in[p], event.message)
            IN IF DoesContainNewRoute(in)
               THEN {[base EXCEPT
                       !.queue = Enqueue(q, Event("AdjRibInChanged")),
                       !.adj_rib_in = UpdateToAllUnchanged(in)]}
               ELSE {[base EXCEPT !.adj_rib_in = in]}
      [] arm = "AdjRibInChanged" ->
            LET loc == InstallFromAdjRibIn(loc_rib[p], adj_rib_in[p],
                                           c.local_as)
            IN IF DoesContainNewRoute(loc)
               THEN {[base EXCEPT
                       !.queue = Enqueue(q, Event("LocRibChanged")),
                       !.loc_rib = UpdateToAllUnchanged(loc),
                       !.kernel_written = TRUE]}
               ELSE {[base EXCEPT !.loc_rib = loc]}
      [] OTHER -> {base}

-----------------------------------------------------------------------------
(* Peer::next.  The call has two parts separated by awaits; another task   *)
(* may run between them.  pc[p] is the index in TickOrder of the part the  *)
(* peer's task performs next.                                              *)
(*                                                                         *)
(* The TCP stream between the two peers is reliable and keeps the order:   *)
(* rcv[p] lists the messages sent to p that p has not yet read.  A message *)
(* that arrives late is not modelled apart from a message sent late.       *)

TickOrderMessageFirst == <<"recv", "dequeue">>

\* Peer::next: first dequeue and handle one event, then get_message
TickOrder == <<"dequeue", "recv">>

NoStep == [peer |-> 0, step |-> "none", pre_state |-> "Idle",
           event |-> NoEvent,
           message |-> NoMessage, sent |-> <<>>, kernel_written |-> FALSE]

Min(a, b) == IF a < b THEN a ELSE b

\* The task of p moves to the next part of Peer::next; after the last part
\* the call returns.
Advance(p) ==
    /\ pc' = [pc EXCEPT ![p] = IF @ = Len(TickOrder) THEN 1 ELSE @ + 1]
    /\ ticks' = [ticks EXCEPT ![p] =
                    IF pc[p] = Len(TickOrder)
                    THEN Min(@ + 1, TickCap) ELSE @]

\* The Updates among the messages of the sequence
UpdatesIn(messages) == SelectSeq(messages, LAMBDA m : m.type = "Update")

\* Connection::send for each of the messages: what reaches the remote end.
\* The result of write_all is dropped, so the caller learns nothing of a
\* write that fails.
ConnectionSend(ok, messages) == IF ok THEN messages ELSE <<>>

\* Peer::start; main calls it once for each peer before the peer's task runs
Start(p) ==
    /\ ~started[p]
    /\ started' = [started EXCEPT ![p] = TRUE]
    /\ event_queue' = [event_queue EXCEPT
                          ![p] = Enqueue(@, Event("ManualStart"))]
    /\ last' = [NoStep EXCEPT !.peer = p, !.step = "start",
                              !.pre_state = state[p]]
    /\ UNCHANGED <<state, tcp_connection, loc_rib, adj_rib_out, adj_rib_in,
                   rcv, pc, panicked, connect_ok, write_ok, kernel_has, ticks,
                   injected, restarts, updates_sent, queueVars, ribVars,
                   codecVars, connVars, spkVars>>

\* Peer::next, lines 58-61: if the queue holds an event, dequeue it and
\* handle it
NextDequeue(p) ==
    /\ started[p]
    /\ ~panicked[p]
    /\ TickOrder[pc[p]] = "dequeue"
    /\ LET d == Dequeue(event_queue[p])
       IN IF d.event = NoEvent
          THEN /\ Advance(p)
               /\ last' = [NoStep EXCEPT !.peer = p, !.step = "dequeue",
                                         !.pre_state = state[p]]
               /\ UNCHANGED <<state, event_queue, tcp_connection, loc_rib,
                              adj_rib_out, adj_rib_in, rcv, panicked,
                              updates_sent>>
          ELSE \E r \in HandleEvent(p, d.event, d.queue) :
               /\ state' = [state EXCEPT ![p] = r.state]
               /\ event_queue' = [event_queue EXCEPT ![p] = r.queue]
               /\ tcp_connection' = [tcp_connection EXCEPT ![p] = r.conn]
               /\ loc_rib' = [loc_rib EXCEPT ![p] = r.loc_rib]
               /\ adj_rib_out' = [adj_rib_out EXCEPT ![p] = r.adj_rib_out]
               /\ adj_rib_in' = [adj_rib_in EXCEPT ![p] = r.adj_rib_in]
               /\ rcv' = [rcv EXCEPT
                            ![Remote(p)] = @ \o ConnectionSend(write_ok[p],
                                                               r.sent)]
               /\ updates_sent' = [updates_sent EXCEPT
                                      ![p] = @ + Len(UpdatesIn(r.sent))]
               /\ panicked' = [panicked EXCEPT ![p] = r.panicked]
               /\ IF r.panicked
                  THEN UNCHANGED <<pc, ticks>>
                  ELSE Advance(p)
               /\ last' = [peer |-> p, step |-> "dequeue",
                           pre_state |-> state[p], event |-> d.event,
                           message |-> NoMessage, sent |-> r.sent,
                           kernel_written |-> r.kernel_written]
    /\ UNCHANGED <<connect_ok, write_ok, kernel_has, started, injected,
                   restarts, queueVars,
                   ribVars, codecVars, connVars, spkVars>>

\* Peer::next, lines 63-68, with Connection::get_message: if a connection
\* exists and a whole message has arrived, take the oldest one and enqueue
\* its event
NextReceive(p) ==
    /\ started[p]
    /\ ~panicked[p]
    /\ TickOrder[pc[p]] = "recv"
    /\ IF tcp_connection[p] /\ rcv[p] # <<>>
       THEN /\ event_queue' = [event_queue EXCEPT
                                 ![p] = Enqueue(@, EventOfMessage(Head(rcv[p])))]
            /\ rcv' = [rcv EXCEPT ![p] = Tail(@)]
            /\ last' = [NoStep EXCEPT !.peer = p, !.step = "recv",
                                      !.pre_state = state[p],
                                      !.message = Head(rcv[p])]
       ELSE /\ UNCHANGED <<event_queue, rcv>>
            /\ last' = [NoStep EXCEPT !.peer = p, !.step = "recv",
                                      !.pre_state = state[p]]
    /\ Advance(p)
    /\ UNCHANGED <<state, tcp_connection, loc_rib, adj_rib_out, adj_rib_in,
                   panicked, connect_ok, write_ok, kernel_has, started,
                   injected, restarts,
                   updates_sent, queueVars, ribVars, codecVars, connVars, spkVars>>

\* The attribute lists of the Updates that the remote speaker of p sends
\* for routes it learned elsewhere: one that p accepts and passes on, one
\* that p does not pass back (its AsPath holds the remote AS), and one that
\* p does not accept (its AsPath holds p's own AS).
RemoteAttributes(p) ==
    LET c == Config[p]
    IN {<<Origin("Egp"), AsSequence(<<AS64514>>), NextHop(c.remote_ip)>>,
        <<Origin("Igp"), AsSequence(<<AS64514, c.remote_as>>),
          NextHop(c.remote_ip)>>,
        <<Origin("Igp"), AsSet(SortedInsert(<<AS64514>>, c.local_as)),
          NextHop(c.remote_ip)>>}

RemoteUpdates(p) ==
    {NewUpdate(a, n, <<>>) :
        a \in RemoteAttributes(p), n \in {<<NetA>>, <<NetA, NetB>>}}

\* The remote speaker of p, once connected, sends a message besides those
\* of its own state machine: an Update for routes it learned elsewhere, or
\* the Keepalive that a speaker honouring the hold time repeats.  It arrives
\* in whatever state p is in.  Peer 1 passes the routes it accepts on to
\* peer 2 through its own AdjRibOut.
RemoteSends(p) ==
    /\ injected < MaxInject
    /\ tcp_connection[p]
    /\ tcp_connection[Remote(p)]
    /\ \E m \in RemoteUpdates(p) \cup {NewKeepalive} :
        /\ rcv' = [rcv EXCEPT ![p] = Append(@, m)]
        /\ last' = [NoStep EXCEPT !.peer = p, !.step = "remote",
                                  !.pre_state = state[p], !.message = m]
    /\ injected' = injected + 1
    /\ UNCHANGED <<state, event_queue, tcp_connection, loc_rib, adj_rib_out,
                   adj_rib_in, pc, panicked, connect_ok, write_ok, kernel_has,
                   started, ticks, restarts, updates_sent, queueVars, ribVars,
                   codecVars, connVars, spkVars>>

-----------------------------------------------------------------------------
(* The pair of peers *)

\* Peer::new for both peers, LocRib::new for both speakers
InitPeers ==
    /\ state = [p \in Peers |-> "Idle"]
    /\ event_queue = [p \in Peers |-> EventQueueNew]
    /\ tcp_connection = [p \in Peers |-> FALSE]
    /\ loc_rib = [p \in Peers |-> LocRibNew(Config[p], kernel_has[p])]
    /\ adj_rib_out = [p \in Peers |-> RibNew]
    /\ adj_rib_in = [p \in Peers |-> RibNew]
    /\ rcv = [p \in Peers |-> <<>>]
    /\ pc = [p \in Peers |-> 1]
    /\ panicked = [p \in Peers |-> FALSE]
    /\ started = [p \in Peers |-> FALSE]
    /\ ticks = [p \in Peers |-> 0]
    /\ injected = 0
    /\ restarts = 0
    /\ updates_sent = [p \in Peers |-> 0]
    /\ last = NoStep

InitQueue ==
    /\ eq = EventQueueNew
    /\ eq_in = <<>>
    /\ eq_out = <<>>

\* No call has been made on the stand-alone RIBs
LabNoCall == [call |-> "none", on |-> "", update |-> NoMessage,
              entry |-> RibEntry("", NoAttrs), sent |-> <<>>,
              flag |-> FALSE]

\* Nothing has been converted yet
CodecNoCall == [call |-> "none", input |-> <<>>, bytes |-> <<>>,
                bytes_len |-> 0, decoded |-> [result |-> "None",
                                              value |-> <<>>]]

\* No get_message call has been made
ConnNoCall == [returned |-> "none", frame |-> <<>>, decoded |-> "none"]

\* Connection::connect: the buffer is empty
InitConn ==
    /\ conn_arrived = 0
    /\ conn_buffer = <<>>
    /\ conn_got = <<>>
    /\ conn_stopped = FALSE
    /\ conn_last = ConnNoCall
    /\ conn_reading = FALSE

\* A speaker with two peers as main builds it: both are Active, have the
\* local AS and address of the first config, and share one LocRib
SpeakerConfig ==
    [t \in Peers |->
        [local_as |-> AS64512, local_ip |-> "127.0.0.1",
         remote_as |-> IF t = 1 THEN AS64513 ELSE AS64514,
         remote_ip |-> IF t = 1 THEN "127.0.0.2" ELSE "127.0.0.3",
         mode |-> "Active", networks |-> {NetA}]]

\* LocRib::new and Peer::new for the peers of the speaker, each then brought
\* to Established: the Established event is in its queue
InitSpeaker ==
    /\ spk_loc_rib = LocRibNew(SpeakerConfig[1], SpeakerConfig[1].networks)
    /\ spk_lock = 0
    /\ spk_adj_rib_in = [t \in Peers |-> RibNew]
    /\ spk_adj_rib_out = [t \in Peers |-> RibNew]
    /\ spk_queue = [t \in Peers |-> Enqueue(EventQueueNew,
                                            Event("Established"))]
    /\ spk_pc = [t \in Peers |-> "recv"]
    /\ spk_todo = [t \in Peers |-> <<>>]
    /\ spk_attempted = [t \in Peers |-> {}]
    /\ spk_kernel = {}
    /\ spk_sending = [t \in Peers |-> <<>>]
    /\ spk_sent = [t \in Peers |-> <<>>]
    /\ spk_received = [t \in Peers |-> 0]
    /\ spk_added = [t \in Peers |-> {}]

\* LocRib::new, AdjRibIn::new and AdjRibOut::new of the speaker of peer 1
InitRibs ==
    /\ lab_adj_rib_in = RibNew
    /\ lab_loc_rib = LocRibNew(Config[1], Config[1].networks)
    /\ lab_adj_rib_out = RibNew
    /\ lab_last = LabNoCall
    /\ lab_calls = 0
    /\ codec_last = CodecNoCall
    /\ conn_stream = <<>>
    /\ conn_closed = FALSE
    /\ InitConn
    /\ spk_fail = {}
    /\ spk_netlink_ok = TRUE
    /\ InitSpeaker

Init ==
    /\ connect_ok \in [Peers -> BOOLEAN]
    /\ write_ok = [p \in Peers |-> TRUE]
    /\ kernel_has \in {f \in [Peers -> SUBSET Nets] :
                          \A p \in Peers : f[p] \subseteq Config[p].networks}
    /\ InitPeers
    /\ InitQueue
    /\ InitRibs

Next ==
    \/ \E p \in Peers : Start(p)
    \/ \E p \in Peers : NextDequeue(p)
    \/ \E p \in Peers : NextReceive(p)
    \/ RemoteSends(1)

Spec == Init /\ [][Next]_vars

\* main starts every peer and each peer's task keeps calling Peer::next
Fairness ==
    \A p \in Peers :
        /\ WF_vars(Start(p))
        /\ WF_vars(NextDequeue(p))
        /\ WF_vars(NextReceive(p))

FairSpec == Spec /\ Fairness

\* The pair on its own: each peer receives only what the other peer's state
\* machine sends
NextPair ==
    \/ \E p \in Peers : Start(p)
    \/ \E p \in Peers : NextDequeue(p)
    \/ \E p \in Peers : NextReceive(p)

SpecPair == Init /\ [][NextPair]_vars

FairSpecPair == SpecPair /\ Fairness

-----------------------------------------------------------------------------
(* The pair when the remote speaker withdraws routes *)

\* Updates that withdraw: with nothing else, and with a route announced
\* beside the withdrawal
WithdrawingUpdates(p) ==
    {NewUpdate(<<>>, <<>>, w) : w \in {<<NetA>>, <<NetB>>, <<NetA, NetB>>}}
    \cup {NewUpdate(a, <<NetA>>, <<NetB>>) : a \in RemoteAttributes(p)}

\* The remote speaker of p sends an Update that withdraws routes
RemoteWithdraws(p) ==
    /\ injected < MaxInject
    /\ tcp_connection[p]
    /\ tcp_connection[Remote(p)]
    /\ \E m \in WithdrawingUpdates(p) :
        /\ rcv' = [rcv EXCEPT ![p] = Append(@, m)]
        /\ last' = [NoStep EXCEPT !.peer = p, !.step = "remote",
                                  !.pre_state = state[p], !.message = m]
    /\ injected' = injected + 1
    /\ UNCHANGED <<state, event_queue, tcp_connection, loc_rib, adj_rib_out,
                   adj_rib_in, pc, panicked, connect_ok, write_ok, kernel_has,
                   started, ticks, restarts, updates_sent, queueVars, ribVars,
                   codecVars, connVars, spkVars>>

NextWithdraw ==
    \/ \E p \in Peers : Start(p)
    \/ \E p \in Peers : NextDequeue(p)
    \/ \E p \in Peers : NextReceive(p)
    \/ RemoteSends(1)
    \/ RemoteWithdraws(1)

SpecWithdraw == Init /\ [][NextWithdraw]_vars

-----------------------------------------------------------------------------
(* The pair when Peer::start is called again *)

\* Peer::start called on a peer that has been started already, at any time
StartAgain(p) ==
    /\ started[p]
    /\ restarts < MaxRestarts
    /\ restarts' = restarts + 1
    /\ event_queue' = [event_queue EXCEPT
                          ![p] = Enqueue(@, Event("ManualStart"))]
    /\ last' = [NoStep EXCEPT !.peer = p, !.step = "start",
                              !.pre_state = state[p]]
    /\ UNCHANGED <<state, tcp_connection, loc_rib, adj_rib_out, adj_rib_in,
                   rcv, pc, panicked, connect_ok, write_ok, kernel_has,
                   started, ticks, injected, updates_sent, queueVars,
                   ribVars, codecVars, connVars, spkVars>>

NextRestart ==
    \/ \E p \in Peers : Start(p)
    \/ \E p \in Peers : NextDequeue(p)
    \/ \E p \in Peers : NextReceive(p)
    \/ RemoteSends(1)
    \/ \E p \in Peers : StartAgain(p)

SpecRestart == Init /\ [][NextRestart]_vars

-----------------------------------------------------------------------------
(* The pair over connections that break *)

\* The connection of p breaks: from now on write_all returns an error
ConnectionBreaks(p) ==
    /\ tcp_connection[p]
    /\ write_ok[p]
    /\ write_ok' = [write_ok EXCEPT ![p] = FALSE]
    /\ last' = [NoStep EXCEPT !.peer = p, !.step = "break",
                              !.pre_state = state[p]]
    /\ UNCHANGED <<state, event_queue, tcp_connection, loc_rib, adj_rib_out,
                   adj_rib_in, rcv, pc, panicked, connect_ok, kernel_has,
                   started, ticks, injected, restarts, updates_sent, queueVars,
                   ribVars, codecVars, connVars, spkVars>>

NextFaulty ==
    \/ \E p \in Peers : Start(p)
    \/ \E p \in Peers : NextDequeue(p)
    \/ \E p \in Peers : NextReceive(p)
    \/ \E p \in Peers : ConnectionBreaks(p)

\* Both connects succeed and every configured network is in the kernel
\* routing table; the connections are sound at first
InitFaulty ==
    /\ connect_ok = [p \in Peers |-> TRUE]
    /\ write_ok = [p \in Peers |-> TRUE]
    /\ kernel_has = [p \in Peers |-> Config[p].networks]
    /\ InitPeers
    /\ InitQueue
    /\ InitRibs

SpecFaulty == InitFaulty /\ [][NextFaulty]_vars

-----------------------------------------------------------------------------
(* An EventQueue on its own, driven by arbitrary enqueue and dequeue calls *)

QueueEvents == {Event("ManualStart"), Event("Established"),
                Event("LocRibChanged")}

QueueEnqueue(e) ==
    /\ Len(eq_in) + Len(eq_out) < MaxQueueOps
    /\ eq' = Enqueue(eq, e)
    /\ eq_in' = Append(eq_in, e)
    /\ UNCHANGED <<eq_out, peerVars, ribVars, codecVars, connVars, spkVars>>

QueueDequeue ==
    /\ Len(eq_in) + Len(eq_out) < MaxQueueOps
    /\ eq' = Dequeue(eq).queue
    /\ eq_out' = Append(eq_out, Dequeue(eq).event)
    /\ UNCHANGED <<eq_in, peerVars, ribVars, codecVars, connVars, spkVars>>

InitQueueOnly ==
    /\ connect_ok = [p \in Peers |-> TRUE]
    /\ write_ok = [p \in Peers |-> TRUE]
    /\ kernel_has = [p \in Peers |-> Config[p].networks]
    /\ InitPeers
    /\ InitQueue
    /\ InitRibs

NextQueue ==
    \/ \E e \in QueueEvents : QueueEnqueue(e)
    \/ QueueDequeue

SpecQueue == InitQueueOnly /\ [][NextQueue]_vars

-----------------------------------------------------------------------------
(* The three RIBs of one speaker on their own, driven by arbitrary calls.   *)
(* The speaker is that of peer 1.                                           *)

\* The attribute lists of the Updates fed in: those of RemoteAttributes, a
\* list whose AsPath is an AsSet without local_as and a list that has no
\* AsPath
LabAttributes ==
    RemoteAttributes(1)
    \cup {<<Origin("Egp"), AsSet(<<AS64514>>),
            NextHop(Config[1].remote_ip)>>,
          <<Origin("Incomplete"), NextHop(Config[1].remote_ip)>>}

LabUpdates ==
    {NewUpdate(a, n, <<>>) :
        a \in LabAttributes, n \in {<<NetA>>, <<NetA, NetB>>}}

LabEntries == {RibEntry(NetA, a) : a \in RemoteAttributes(1)}

LabRibs == {"adj_rib_in", "loc_rib", "adj_rib_out"}

LabRib(on) ==
    CASE on = "adj_rib_in" -> lab_adj_rib_in
      [] on = "loc_rib" -> lab_loc_rib
      [] on = "adj_rib_out" -> lab_adj_rib_out

\* The three RIBs after a call that makes `on` become rib
LabSet(on, rib) ==
    /\ lab_adj_rib_in' = IF on = "adj_rib_in" THEN rib ELSE lab_adj_rib_in
    /\ lab_loc_rib' = IF on = "loc_rib" THEN rib ELSE lab_loc_rib
    /\ lab_adj_rib_out' = IF on = "adj_rib_out" THEN rib ELSE lab_adj_rib_out

LabCall ==
    /\ lab_calls < MaxRibCalls
    /\ lab_calls' = lab_calls + 1
    /\ UNCHANGED <<peerVars, queueVars, codecVars, connVars, spkVars>>

\* adj_rib_in.install_from_update(u, config)
LabInstallFromUpdate(u) ==
    /\ LabCall
    /\ LabSet("adj_rib_in", InstallFromUpdate(lab_adj_rib_in, u))
    /\ lab_last' = [LabNoCall EXCEPT !.call = "install_from_update",
                                     !.on = "adj_rib_in", !.update = u]

\* loc_rib.install_from_adj_rib_in(adj_rib_in)
LabInstallFromAdjRibIn ==
    /\ LabCall
    /\ LabSet("loc_rib", InstallFromAdjRibIn(lab_loc_rib, lab_adj_rib_in,
                                             Config[1].local_as))
    /\ lab_last' = [LabNoCall EXCEPT !.call = "install_from_adj_rib_in",
                                     !.on = "loc_rib"]

\* adj_rib_out.install_from_loc_rib(loc_rib, config)
LabInstallFromLocRib ==
    /\ LabCall
    /\ LabSet("adj_rib_out", InstallFromLocRib(lab_adj_rib_out, lab_loc_rib,
                                               Config[1].remote_as))
    /\ lab_last' = [LabNoCall EXCEPT !.call = "install_from_loc_rib",
                                     !.on = "adj_rib_out"]

\* rib.insert(e) through the DerefMut of the RIB `on`
LabInsert(on, e) ==
    /\ LabCall
    /\ LabSet(on, RibInsert(LabRib(on), e))
    /\ lab_last' = [LabNoCall EXCEPT !.call = "insert", !.on = on,
                                     !.entry = e]

\* rib.update_to_all_unchanged()
LabUpdateToAllUnchanged(on) ==
    /\ LabCall
    /\ LabSet(on, UpdateToAllUnchanged(LabRib(on)))
    /\ lab_last' = [LabNoCall EXCEPT !.call = "update_to_all_unchanged",
                                     !.on = on]

\* rib.does_contain_new_route()
LabDoesContainNewRoute(on) ==
    /\ LabCall
    /\ LabSet(on, LabRib(on))
    /\ lab_last' = [LabNoCall EXCEPT !.call = "does_contain_new_route",
                                     !.on = on,
                                     !.flag = DoesContainNewRoute(LabRib(on))]

\* adj_rib_out.create_update_messages(local_ip, local_as)
LabCreateUpdateMessages ==
    /\ LabCall
    /\ LabSet("adj_rib_out", lab_adj_rib_out)
    /\ \E updates \in CreateUpdateMessages(lab_adj_rib_out,
                                            Config[1].local_ip,
                                            Config[1].local_as) :
          lab_last' = [LabNoCall EXCEPT !.call = "create_update_messages",
                                       !.on = "adj_rib_out",
                                       !.sent = updates]

InitRibOnly ==
    /\ connect_ok = [p \in Peers |-> TRUE]
    /\ write_ok = [p \in Peers |-> TRUE]
    /\ kernel_has = [p \in Peers |-> Config[p].networks]
    /\ InitPeers
    /\ InitQueue
    /\ InitRibs

NextRib ==
    \/ \E u \in LabUpdates : LabInstallFromUpdate(u)
    \/ LabInstallFromAdjRibIn
    \/ LabInstallFromLocRib
    \/ \E e \in LabEntries : LabInsert("adj_rib_in", e)
    \/ \E on \in LabRibs : LabUpdateToAllUnchanged(on)
    \/ \E on \in LabRibs : LabDoesContainNewRoute(on)
    \/ LabCreateUpdateMessages

SpecRib == InitRibOnly /\ [][NextRib]_vars

-----------------------------------------------------------------------------
(* The wire format.  Bytes are sequences of numbers in 0..255; an offset    *)
(* into a slice counts from 0 as in the source.  A conversion from bytes    *)
(* returns a record: result is "Ok" with the value, "Err" for an error      *)
(* returned by the code, or "Panic" for an index out of range.  In this     *)
(* part an address is its four octets and an Ipv4Network is the pair of an  *)
(* address and a prefix length that ipnetwork::Ipv4Network holds.           *)

Ok(value) == [result |-> "Ok", value |-> value]
Err == [result |-> "Err", value |-> <<>>]
Panic == [result |-> "Panic", value |-> <<>>]

\* bytes[i]
At(bytes, i) == bytes[i + 1]
\* &bytes[from..to]
Slice(bytes, from, to) == SubSeq(bytes, from + 1, to)

\* u16::to_be_bytes and u16::from_be_bytes
U16ToBeBytes(n) == <<n \div 256, n % 256>>
U16FromBeBytes(b) == b[1] * 256 + b[2]

RECURSIVE Pow2(_)
Pow2(k) == IF k = 0 THEN 1 ELSE 2 * Pow2(k - 1)

Ipv4Network(addr, prefix) == [addr |-> addr, prefix |-> prefix]

\* ipnetwork::Ipv4Network::network: the address with the bits after the
\* prefix cleared
NetworkOf(n) ==
    [k \in 1..4 |->
        LET kept == IF n.prefix >= 8 * k THEN 8
                    ELSE IF n.prefix <= 8 * (k - 1) THEN 0
                    ELSE n.prefix - 8 * (k - 1)
        IN (n.addr[k] \div Pow2(8 - kept)) * Pow2(8 - kept)]

\* From<&Ipv4Network> for BytesMut: the number of octets of the address
\* that follow the prefix length
EncodedOctets(prefix) ==
    IF prefix = 0 THEN 0
    ELSE IF prefix \in 1..8 THEN 1
    ELSE IF prefix \in 9..16 THEN 2
    ELSE IF prefix \in 17..24 THEN 3
    ELSE 4

\* From<&Ipv4Network> for BytesMut
Ipv4NetworkBytes(n) ==
    <<n.prefix>> \o SubSeq(NetworkOf(n), 1, EncodedOctets(n.prefix))

RECURSIVE Ipv4NetworksBytes(_)
Ipv4NetworksBytes(networks) ==
    IF networks = <<>> THEN <<>>
    ELSE Ipv4NetworkBytes(Head(networks))
            \o Ipv4NetworksBytes(Tail(networks))

\* Ipv4Network::bytes_len
Ipv4NetworkBytesLen(n) ==
    IF n.prefix = 0 THEN 1
    ELSE IF n.prefix \in 1..8 THEN 2
    ELSE IF n.prefix \in 9..16 THEN 3
    ELSE IF n.prefix \in 17..24 THEN 4
    ELSE 5

\* Ipv4Network::from_u8_slice: the number of octets read after a prefix
\* length, with 24 taken by the branch of four octets
DecodedOctetsUpTo23(prefix) ==
    IF prefix = 0 THEN 0
    ELSE IF prefix \in 1..8 THEN 1
    ELSE IF prefix \in 9..16 THEN 2
    ELSE IF prefix \in 17..23 THEN 3
    ELSE IF prefix \in 24..32 THEN 4
    ELSE -1

\* Ipv4Network::from_u8_slice: the number of octets read after a prefix
\* length; -1 is the final else branch
DecodedOctets(prefix) ==
    IF prefix = 0 THEN 0
    ELSE IF prefix \in 1..8 THEN 1
    ELSE IF prefix \in 9..16 THEN 2
    ELSE IF prefix \in 17..24 THEN 3
    ELSE IF prefix \in 24..32 THEN 4
    ELSE -1

\* Ipv4Network::from_u8_slice, from offset i on with the networks read so
\* far
RECURSIVE Ipv4NetworksFrom(_, _, _)
Ipv4NetworksFrom(bytes, i, networks) ==
    IF ~(Len(bytes) > i) THEN Ok(networks)
    ELSE LET prefix == At(bytes, i)
             octets == DecodedOctets(prefix)
         IN IF octets = -1 THEN Err
            ELSE IF i + 1 + octets > Len(bytes) THEN Panic
            ELSE Ipv4NetworksFrom(bytes, i + 1 + octets,
                    Append(networks,
                           Ipv4Network(
                               [k \in 1..4 |->
                                   IF k <= octets THEN At(bytes, i + k)
                                   ELSE 0],
                               prefix)))

Ipv4NetworkFromU8Slice(bytes) == Ipv4NetworksFrom(bytes, 0, <<>>)

-----------------------------------------------------------------------------

(* Path attributes on the wire *)

\* PathAttribute::DontKnow: the bytes of the whole attribute are held in
\* the field ases
DontKnow(v) == [type |-> "DontKnow", origin |-> "", kind |-> "",
                ases |-> v, ip |-> ""]

\* From<&AsPath> for BytesMut: the AS numbers as bytes, two for each
AsNumbersBytes(ases) ==
    [k \in 1..2 * Len(ases) |->
        U16ToBeBytes(ases[(k + 1) \div 2])[2 - (k % 2)]]

\* From<&AsPath> for BytesMut: the number of ASes is cast to u8
AsPathBytes(as_path) ==
    <<IF as_path.kind = "AsSet" THEN 1 ELSE 2, Len(as_path.ases) % 256>>
        \o AsNumbersBytes(as_path.ases)

\* AsPath::bytes_len
AsPathBytesLen(as_path) == 1 + 1 + 2 * Len(as_path.ases)

\* PathAttribute::bytes_len
PathAttributeBytesLen(p) ==
    LET path_attribute_value_length ==
            CASE p.type = "Origin" -> 1
              [] p.type = "AsPath" -> AsPathBytesLen(p)
              [] p.type = "NextHop" -> 4
              [] p.type = "DontKnow" -> Len(p.ases)
        length == path_attribute_value_length + 2
    IN IF path_attribute_value_length > 255 THEN length + 2
       ELSE length + 1

\* From<&PathAttribute> for BytesMut
PathAttributeBytes(p) ==
    CASE p.type = "Origin" ->
            <<64, 1, 1, CASE p.origin = "Igp" -> 0
                          [] p.origin = "Egp" -> 1
                          [] p.origin = "Incomplete" -> 2>>
      [] p.type = "AsPath" ->
            LET attribute_length == AsPathBytesLen(p) % 65536
            IN IF attribute_length < 256
               THEN <<64, 2, attribute_length>> \o AsPathBytes(p)
               ELSE <<64 + 16, 2>> \o U16ToBeBytes(attribute_length)
                        \o AsPathBytes(p)
      [] p.type = "NextHop" -> <<64, 3, 4>> \o p.ip
      [] p.type = "DontKnow" -> p.ases

RECURSIVE PathAttributesBytes(_)
PathAttributesBytes(attrs) ==
    IF attrs = <<>> THEN <<>>
    ELSE PathAttributeBytes(Head(attrs)) \o PathAttributesBytes(Tail(attrs))

\* TryFrom<&[u8]> for AsPath: the loop that reads two bytes at a time
\* from offset 2 of value on, and panics when one byte is left over
AsNumbersFrom(value) ==
    LET rest == IF Len(value) > 2 THEN Len(value) - 2 ELSE 0
    IN IF rest % 2 = 1 THEN Panic
       ELSE Ok([k \in 1..rest \div 2 |->
                   U16FromBeBytes(Slice(value, 2 * k, 2 * k + 2))])

\* The BTreeSet that holds the numbers of ases: the numbers in increasing
\* order, each once
BTreeSetOf(ases) ==
    LET set == Range(ases)
    IN [k \in 1..Cardinality(set) |->
           CHOOSE a \in set : Cardinality({b \in set : b < a}) = k - 1]

\* TryFrom<&[u8]> for AsPath
AsPathTryFrom(value) ==
    IF Len(value) = 0 THEN Panic
    ELSE IF At(value, 0) \notin {1, 2} THEN Err
    ELSE LET ases == AsNumbersFrom(value)
         IN IF ases.result # "Ok" THEN ases
            ELSE IF At(value, 0) = 1
                 THEN Ok(AsSet(BTreeSetOf(ases.value)))
                 ELSE Ok(AsSequence(ases.value))

\* TryFrom<u8> for Origin
OriginTryFrom(value) ==
    CASE value = 0 -> Ok(Origin("Igp"))
      [] value = 1 -> Ok(Origin("Egp"))
      [] value = 2 -> Ok(Origin("Incomplete"))
      [] OTHER -> Err

\* PathAttribute::from_u8_slice: (attribute_flag & 0b00010000) + 1
AttributeLengthOctets(attribute_flag) ==
    ((attribute_flag \div 16) % 2) * 16 + 1

\* PathAttribute::from_u8_slice, from offset i on with the attributes read
\* so far
RECURSIVE PathAttributesFrom(_, _, _)
PathAttributesFrom(bytes, i, path_attributes) ==
    IF ~(Len(bytes) > i) THEN Ok(path_attributes)
    ELSE IF i + 1 >= Len(bytes) THEN Panic
    ELSE
      LET attribute_flag == At(bytes, i)
          attribute_length_octets == AttributeLengthOctets(attribute_flag)
          attribute_type_code == At(bytes, i + 1)
          length_in_range ==
              IF attribute_length_octets = 1 THEN i + 2 < Len(bytes)
              ELSE i + 4 <= Len(bytes)
          attribute_length ==
              IF attribute_length_octets = 1 THEN At(bytes, i + 2)
              ELSE U16FromBeBytes(Slice(bytes, i + 2, i + 4))
          attribute_start_index == i + 1 + attribute_length_octets + 1
          attribute_end_index == attribute_start_index + attribute_length
          path_attribute ==
              CASE attribute_type_code = 1 ->
                      IF attribute_start_index >= Len(bytes) THEN Panic
                      ELSE OriginTryFrom(At(bytes, attribute_start_index))
                [] attribute_type_code = 2 ->
                      IF attribute_end_index > Len(bytes) THEN Panic
                      ELSE AsPathTryFrom(Slice(bytes, attribute_start_index,
                                               attribute_end_index))
                [] attribute_type_code = 3 ->
                      IF attribute_start_index + 3 >= Len(bytes) THEN Panic
                      ELSE Ok(NextHop(Slice(bytes, attribute_start_index,
                                            attribute_start_index + 4)))
                [] OTHER ->
                      IF attribute_end_index > Len(bytes) THEN Panic
                      ELSE Ok(DontKnow(Slice(bytes, i, attribute_end_index)))
      IN IF ~length_in_range THEN Panic
         ELSE IF path_attribute.result # "Ok" THEN path_attribute
         ELSE PathAttributesFrom(bytes, attribute_end_index,
                  Append(path_attributes, path_attribute.value))

PathAttributeFromU8Slice(bytes) == PathAttributesFrom(bytes, 0, <<>>)

-----------------------------------------------------------------------------

(* Header and messages on the wire.  Here a message is the struct with its *)
(* header and its length fields, as the conversions see it.                *)

\* Header::new
HeaderNew(length, type_) == [length |-> length, type_ |-> type_]

\* From<MessageType> for u8
MessageTypeToU8(type_) ==
    CASE type_ = "Open" -> 1
      [] type_ = "Update" -> 2
      [] type_ = "Keepalive" -> 4

\* TryFrom<u8> for MessageType, with Keepalive as type 3
MessageTypeTryFromKeepaliveIs3(num) ==
    CASE num = 1 -> Ok("Open")
      [] num = 2 -> Ok("Update")
      [] num = 3 -> Ok("Keepalive")
      [] OTHER -> Err

\* TryFrom<u8> for MessageType
MessageTypeTryFrom(num) ==
    CASE num = 1 -> Ok("Open")
      [] num = 2 -> Ok("Update")
      [] num = 4 -> Ok("Keepalive")
      [] OTHER -> Err

\* From<Header> for BytesMut, with the length in little-endian order
HeaderBytesLittleEndian(header) ==
    [k \in 1..16 |-> 255] \o <<header.length % 256, header.length \div 256>>
        \o <<MessageTypeToU8(header.type_)>>

\* From<Header> for BytesMut
HeaderBytes(header) ==
    [k \in 1..16 |-> 255] \o U16ToBeBytes(header.length)
        \o <<MessageTypeToU8(header.type_)>>

\* TryFrom<BytesMut> for Header
HeaderTryFrom(bytes) ==
    IF Len(bytes) < 19 THEN Panic
    ELSE LET length == U16FromBeBytes(Slice(bytes, 16, 18))
             type_ == MessageTypeTryFrom(At(bytes, 18))
         IN IF type_.result # "Ok" THEN type_
            ELSE Ok(HeaderNew(length, type_.value))

\* OpenMessage::new: Version::new is 4 and HoldTime::new is 240
OpenMessageNew(my_as_number, my_ip_addr) ==
    [header |-> HeaderNew(29, "Open"), version |-> 4,
     my_as_number |-> my_as_number, hold_time |-> 240,
     bgp_identifier |-> my_ip_addr, optional_parameter_length |-> 0,
     optional_parameters |-> <<>>]

\* From<OpenMessage> for BytesMut
OpenMessageBytes(message) ==
    HeaderBytes(message.header) \o <<message.version>>
        \o U16ToBeBytes(message.my_as_number)
        \o U16ToBeBytes(message.hold_time)
        \o message.bgp_identifier
        \o <<message.optional_parameter_length>>
        \o message.optional_parameters

\* TryFrom<u8> for Version: v <= 4
VersionTryFrom(v) == IF v <= 4 THEN Ok(v) ELSE Err

\* TryFrom<BytesMut> for OpenMessage
OpenMessageTryFrom(bytes) ==
    LET header == HeaderTryFrom(SubSeq(bytes, 1, 19))
    IN IF Len(bytes) < 19 THEN Panic
       ELSE IF header.result # "Ok" THEN header
       ELSE IF Len(bytes) < 20 THEN Panic
       ELSE IF VersionTryFrom(At(bytes, 19)).result # "Ok"
            THEN VersionTryFrom(At(bytes, 19))
       ELSE IF Len(bytes) < 29 THEN Panic
       ELSE Ok([header |-> header.value,
                version |-> VersionTryFrom(At(bytes, 19)).value,
                my_as_number |-> U16FromBeBytes(Slice(bytes, 20, 22)),
                hold_time |-> U16FromBeBytes(Slice(bytes, 22, 24)),
                bgp_identifier |-> Slice(bytes, 24, 28),
                optional_parameter_length |-> At(bytes, 28),
                optional_parameters |-> Slice(bytes, 29, Len(bytes))])

\* KeepaliveMessage::new
KeepaliveMessageNew == [header |-> HeaderNew(19, "Keepalive")]

\* From<KeepaliveMessage> for BytesMut
KeepaliveMessageBytes(keepalive) == HeaderBytes(keepalive.header)

\* TryFrom<BytesMut> for KeepaliveMessage
KeepaliveMessageTryFrom(bytes) ==
    LET header == HeaderTryFrom(bytes)
    IN IF header.result # "Ok" THEN header
       ELSE IF header.value.type_ # "Keepalive" THEN Err
       ELSE Ok([header |-> header.value])

RECURSIVE SumOf(_)
SumOf(lengths) ==
    IF lengths = <<>> THEN 0 ELSE Head(lengths) + SumOf(Tail(lengths))

\* UpdateMessage::new: the three sums are cast to u16; the sum in the
\* header stays below 2^16 for the messages built here
UpdateMessageNew(path_attributes, nlri, withdrawn_routes) ==
    LET path_attributes_length ==
            SumOf([k \in 1..Len(path_attributes) |->
                      PathAttributeBytesLen(path_attributes[k])]) % 65536
        nlri_length ==
            SumOf([k \in 1..Len(nlri) |->
                      Ipv4NetworkBytesLen(nlri[k])]) % 65536
        withdrawn_routes_length ==
            SumOf([k \in 1..Len(withdrawn_routes) |->
                      Ipv4NetworkBytesLen(withdrawn_routes[k])]) % 65536
    IN [header |-> HeaderNew(19 + path_attributes_length + nlri_length
                                + withdrawn_routes_length + 4, "Update"),
        withdrawn_routes |-> withdrawn_routes,
        withdrawn_routes_length |-> withdrawn_routes_length,
        path_attributes |-> path_attributes,
        path_attributes_length |-> path_attributes_length,
        network_layer_reachability_information |-> nlri]

\* From<UpdateMessage> for BytesMut
UpdateMessageBytes(message) ==
    HeaderBytes(message.header)
        \o U16ToBeBytes(message.withdrawn_routes_length)
        \o Ipv4NetworksBytes(message.withdrawn_routes)
        \o U16ToBeBytes(message.path_attributes_length)
        \o PathAttributesBytes(message.path_attributes)
        \o Ipv4NetworksBytes(message.network_layer_reachability_information)

\* TryFrom<BytesMut> for UpdateMessage
UpdateMessageTryFrom(bytes) ==
    LET header == HeaderTryFrom(SubSeq(bytes, 1, 19))
        withdrawn_routes_length == U16FromBeBytes(Slice(bytes, 19, 21))
        withdrawn_routes_end_index == 21 + withdrawn_routes_length
        withdrawn_routes ==
            Ipv4NetworkFromU8Slice(
                Slice(bytes, 21, withdrawn_routes_end_index))
        path_attributes_start_index == withdrawn_routes_end_index + 2
        total_path_attribute_length ==
            U16FromBeBytes(Slice(bytes, withdrawn_routes_end_index,
                                 path_attributes_start_index))
        nlri_start_index ==
            path_attributes_start_index + total_path_attribute_length
        path_attributes ==
            PathAttributeFromU8Slice(
                Slice(bytes, path_attributes_start_index, nlri_start_index))
        nlri == Ipv4NetworkFromU8Slice(
                    Slice(bytes, nlri_start_index, Len(bytes)))
    IN IF Len(bytes) < 19 THEN Panic
       ELSE IF header.result # "Ok" THEN header
       ELSE IF Len(bytes) < 21 THEN Panic
       ELSE IF withdrawn_routes_end_index > Len(bytes) THEN Panic
       ELSE IF withdrawn_routes.result # "Ok" THEN withdrawn_routes
       ELSE IF path_attributes_start_index > Len(bytes) THEN Panic
       ELSE IF nlri_start_index > Len(bytes) THEN Panic
       ELSE IF path_attributes.result # "Ok" THEN path_attributes
       ELSE IF nlri.result # "Ok" THEN nlri
       ELSE Ok([header |-> header.value,
                withdrawn_routes |-> withdrawn_routes.value,
                withdrawn_routes_length |-> withdrawn_routes_length,
                path_attributes |-> path_attributes.value,
                path_attributes_length |-> total_path_attribute_length,
                network_layer_reachability_information |-> nlri.value])

-----------------------------------------------------------------------------

(* The conversions on their own: a value is built, converted to bytes and   *)
(* converted back.                                                          *)

CodecAddrs == {<<0, 0, 0, 0>>, <<10, 100, 220, 0>>, <<10, 200, 100, 3>>,
               <<172, 16, 129, 77>>, <<255, 255, 255, 255>>}

\* Every prefix length that ipnetwork::Ipv4Network::new accepts
CodecNetworks == {Ipv4Network(a, prefix) : a \in CodecAddrs, prefix \in 0..32}

\* Lists of up to two networks
CodecNetworkLists ==
    LET some == {Ipv4Network(<<0, 0, 0, 0>>, 0),
                 Ipv4Network(<<10, 100, 220, 0>>, 24),
                 Ipv4Network(<<10, 100, 220, 128>>, 25),
                 Ipv4Network(<<10, 200, 100, 3>>, 32),
                 Ipv4Network(<<172, 16, 129, 77>>, 20)}
    IN {<<>>} \cup {<<n>> : n \in some}
              \cup {<<n, m>> : n \in some, m \in some}

\* AS numbers in increasing order
AsNumbers(count) == [k \in 1..count |-> AS64512 + k - 1]

CodecAsNumbers ==
    {AsNumbers(count) : count \in {0, 1, 2, MaxAses - 1, MaxAses}}

CodecPathAttributes ==
    {Origin(o) : o \in {"Igp", "Egp", "Incomplete"}}
    \cup {AsSequence(s) : s \in CodecAsNumbers
                                \cup {<<AS64514, AS64512, AS64514>>}}
    \cup {AsSet(s) : s \in CodecAsNumbers}
    \cup {NextHop(a) : a \in CodecAddrs}

\* Attribute lists of Updates: the three attributes of an advertised route
\* for each AsPath, the empty list, a list of one, and a list that holds an
\* attribute this speaker does not know
CodecAttributeLists ==
    {<<Origin("Igp"), AsSequence(s), NextHop(<<10, 200, 100, 3>>)>> :
        s \in CodecAsNumbers}
    \cup {<<>>, <<Origin("Egp")>>,
          <<Origin("Incomplete"), AsSet(AsNumbers(2)),
            NextHop(<<10, 200, 100, 3>>)>>,
          <<Origin("Igp"), DontKnow(<<192, 99, 1, 7>>)>>}

\* One value is converted in a run
CodecCall(call, input, bytes, bytes_len, decoded) ==
    /\ codec_last = CodecNoCall
    /\ codec_last' = [call |-> call, input |-> input, bytes |-> bytes,
                      bytes_len |-> bytes_len, decoded |-> decoded]
    /\ UNCHANGED <<peerVars, queueVars, ribVars, connVars, spkVars>>

CodecNetwork(n) ==
    CodecCall("network", n, Ipv4NetworkBytes(n), Ipv4NetworkBytesLen(n),
              Ipv4NetworkFromU8Slice(Ipv4NetworkBytes(n)))

CodecNetworkList(networks) ==
    CodecCall("networks", networks, Ipv4NetworksBytes(networks),
              SumOf([k \in 1..Len(networks) |->
                        Ipv4NetworkBytesLen(networks[k])]),
              Ipv4NetworkFromU8Slice(Ipv4NetworksBytes(networks)))

CodecPathAttribute(p) ==
    CodecCall("path_attribute", p, PathAttributeBytes(p),
              PathAttributeBytesLen(p),
              PathAttributeFromU8Slice(PathAttributeBytes(p)))

CodecOpen(my_as_number, my_ip_addr) ==
    LET message == OpenMessageNew(my_as_number, my_ip_addr)
    IN CodecCall("open", message, OpenMessageBytes(message),
                 message.header.length,
                 OpenMessageTryFrom(OpenMessageBytes(message)))

CodecKeepalive ==
    LET message == KeepaliveMessageNew
    IN CodecCall("keepalive", message, KeepaliveMessageBytes(message),
                 message.header.length,
                 KeepaliveMessageTryFrom(KeepaliveMessageBytes(message)))

CodecUpdate(path_attributes, nlri, withdrawn_routes) ==
    LET message == UpdateMessageNew(path_attributes, nlri, withdrawn_routes)
    IN CodecCall("update", message, UpdateMessageBytes(message),
                 message.header.length,
                 UpdateMessageTryFrom(UpdateMessageBytes(message)))

\* Headers as they may arrive: any marker, some lengths, any type byte
CodecHeaderBytes ==
    {marker \o U16ToBeBytes(length) \o <<type_>> :
        marker \in {[k \in 1..16 |-> 255], [k \in 1..16 |-> 0],
                    [k \in 1..16 |-> k]},
        length \in {0, 19, 29, 4096, 65535},
        type_ \in 0..255}

\* Header::try_from of bytes that arrive
CodecHeaderFromBytes(bytes) ==
    CodecCall("header_from_bytes", bytes, bytes, Len(bytes),
              HeaderTryFrom(bytes))

\* OpenMessage::try_from of the bytes of an Open whose version byte is the
\* one given
CodecOpenFromBytes(version) ==
    LET message == [OpenMessageNew(AS64513, <<10, 200, 100, 3>>)
                       EXCEPT !.version = version]
    IN CodecCall("open_from_bytes", message, OpenMessageBytes(message),
                 Len(OpenMessageBytes(message)),
                 OpenMessageTryFrom(OpenMessageBytes(message)))

InitCodecOnly ==
    /\ connect_ok = [p \in Peers |-> TRUE]
    /\ write_ok = [p \in Peers |-> TRUE]
    /\ kernel_has = [p \in Peers |-> Config[p].networks]
    /\ InitPeers
    /\ InitQueue
    /\ InitRibs

NextCodec ==
    \/ \E n \in CodecNetworks : CodecNetwork(n)
    \/ \E networks \in CodecNetworkLists : CodecNetworkList(networks)
    \/ \E p \in CodecPathAttributes : CodecPathAttribute(p)
    \/ \E my_as_number \in {AS64512, AS64513, 0, 65535},
          my_ip_addr \in CodecAddrs : CodecOpen(my_as_number, my_ip_addr)
    \/ CodecKeepalive
    \/ \E bytes \in CodecHeaderBytes : CodecHeaderFromBytes(bytes)
    \/ \E version \in 0..255 : CodecOpenFromBytes(version)
    \/ \E path_attributes \in CodecAttributeLists,
          nlri \in CodecNetworkLists, withdrawn_routes \in CodecNetworkLists :
            CodecUpdate(path_attributes, nlri, withdrawn_routes)

SpecCodec == InitCodecOnly /\ [][NextCodec]_vars

-----------------------------------------------------------------------------

(* A Connection on its own: the remote end writes a stream of frames, the   *)
(* bytes arrive in chunks, and the task calls get_message again and again.  *)

\* TryFrom<BytesMut> for Message: the conversion of the type in the header.
\* peer.rs matches on Message::Open, Message::Keepalive and
\* Message::Update; the file of src holds the Open arm only.
MessageTryFrom(bytes) ==
    LET header == HeaderTryFrom(SubSeq(bytes, 1, 19))
    IN IF Len(bytes) < 19 THEN Err
       ELSE IF header.result # "Ok" THEN header
       ELSE CASE header.value.type_ = "Open" -> OpenMessageTryFrom(bytes)
              [] header.value.type_ = "Keepalive" ->
                    KeepaliveMessageTryFrom(bytes)
              [] header.value.type_ = "Update" -> UpdateMessageTryFrom(bytes)

\* The messages that the remote end builds with the constructors
ConnMessages ==
    [Open |-> OpenMessageNew(AS64513, <<127, 0, 0, 2>>),
     Keepalive |-> KeepaliveMessageNew,
     Update |-> UpdateMessageNew(
                    <<Origin("Igp"), AsSequence(<<AS64513>>),
                      NextHop(<<127, 0, 0, 2>>)>>,
                    <<Ipv4Network(<<10, 100, 221, 0>>, 24)>>, <<>>),
     LongUpdate |-> UpdateMessageNew(
                    <<Origin("Igp"), AsSequence(AsNumbers(MaxAses)),
                      NextHop(<<127, 0, 0, 2>>)>>,
                    <<Ipv4Network(<<10, 100, 221, 0>>, 24)>>, <<>>)]

\* The bytes of the well-formed frames, and frames that do not decode: a
\* header of type 3, an Open of version 9, an Update whose NLRI has the
\* prefix length 33, and an Update whose withdrawn_routes_length points
\* past its end
ConnFrames ==
    [Open |-> OpenMessageBytes(ConnMessages.Open),
     Keepalive |-> KeepaliveMessageBytes(ConnMessages.Keepalive),
     Update |-> UpdateMessageBytes(ConnMessages.Update),
     LongUpdate |-> UpdateMessageBytes(ConnMessages.LongUpdate),
     BadType |-> [k \in 1..16 |-> 255] \o <<0, 19, 3>>,
     BadVersion |-> OpenMessageBytes([ConnMessages.Open
                                         EXCEPT !.version = 9]),
     BadPrefix |-> [k \in 1..16 |-> 255] \o <<0, 28, 2>> \o <<0, 0, 0, 0>>
                      \o <<33, 10, 100, 221, 0>>,
     Truncated |-> [k \in 1..16 |-> 255] \o <<0, 23, 2>> \o <<0, 5, 0, 0>>]

WellFormed == {"Open", "Keepalive", "Update", "LongUpdate"}
Malformed == {"BadType", "BadVersion", "BadPrefix", "Truncated"}

\* The streams: up to MaxFrames frames
ConnStreams ==
    UNION {[1..k -> WellFormed \cup Malformed] : k \in 0..MaxFrames}

\* The bytes of the frames from frame k of the stream on
RECURSIVE StreamBytesFrom(_, _)
StreamBytesFrom(stream, k) ==
    IF k > Len(stream) THEN <<>>
    ELSE ConnFrames[stream[k]] \o StreamBytesFrom(stream, k + 1)

StreamBytes(stream) == StreamBytesFrom(stream, 1)

\* The sizes of the chunks in which bytes arrive between two calls; a size
\* past the end of the stream stands for all that is left
ChunkSizes == {0, 1, 2, 17, 18, 19, 20, 65536}

\* Connection::get_index_of_message_separator: -1 is the Err
GetIndexOfMessageSeparator(buffer) ==
    IF Len(buffer) < 19 THEN -1
    ELSE U16FromBeBytes(<<At(buffer, 16), At(buffer, 17)>>)

\* Connection::split_buffer_at_message_separator: the frame split off, or
\* none, and the buffer left
SplitBufferAtMessageSeparator(buffer) ==
    LET index == GetIndexOfMessageSeparator(buffer)
    IN IF index = -1 \/ Len(buffer) < index
       THEN [some |-> FALSE, frame |-> <<>>, buffer |-> buffer]
       ELSE [some |-> TRUE, frame |-> SubSeq(buffer, 1, index),
             buffer |-> SubSeq(buffer, index + 1, Len(buffer))]

\* Connection::get_message, called when the next n bytes of the stream
\* have arrived: read_data_from_tcp_connection moves all that has arrived
\* into the buffer, a frame is split off if the buffer holds a whole one,
\* and the frame is converted; .ok() turns an Err into None
ConnGetMessage(n) ==
    LET bytes == StreamBytes(conn_stream)
        arrived == Min(conn_arrived + n, Len(bytes))
        read == conn_buffer \o SubSeq(bytes, conn_arrived + 1, arrived)
        split == SplitBufferAtMessageSeparator(read)
        decoded == MessageTryFrom(split.frame)
    IN /\ ~conn_stopped
       /\ conn_arrived' = arrived
       /\ conn_buffer' = split.buffer
       /\ conn_stopped' = (split.some /\ decoded.result = "Panic")
       /\ conn_got' = IF split.some /\ decoded.result = "Ok"
                      THEN Append(conn_got, decoded.value)
                      ELSE conn_got
       /\ conn_last' =
            IF ~split.some THEN [ConnNoCall EXCEPT !.returned = "None"]
            ELSE [returned |-> CASE decoded.result = "Ok" -> "Some"
                                 [] decoded.result = "Err" -> "None"
                                 [] decoded.result = "Panic" -> "Panic",
                  frame |-> split.frame,
                  decoded |-> decoded.result]
       /\ UNCHANGED <<conn_stream, conn_closed, conn_reading, peerVars,
                      queueVars, ribVars, codecVars, spkVars>>

InitConnOnly ==
    /\ connect_ok = [p \in Peers |-> TRUE]
    /\ write_ok = [p \in Peers |-> TRUE]
    /\ kernel_has = [p \in Peers |-> Config[p].networks]
    /\ InitPeers
    /\ InitQueue
    /\ lab_adj_rib_in = RibNew
    /\ lab_loc_rib = LocRibNew(Config[1], Config[1].networks)
    /\ lab_adj_rib_out = RibNew
    /\ lab_last = LabNoCall
    /\ lab_calls = 0
    /\ codec_last = CodecNoCall
    /\ conn_stream \in ConnStreams
    /\ conn_closed = FALSE
    /\ InitConn
    /\ spk_fail = {}
    /\ spk_netlink_ok = TRUE
    /\ InitSpeaker

NextConn == \E n \in ChunkSizes : ConnGetMessage(n)

SpecConn == InitConnOnly /\ [][NextConn]_vars

-----------------------------------------------------------------------------
(* Connection::get_message read by read.  Each pass of the loop of          *)
(* read_data_from_tcp_connection calls try_read_buf on an empty Vec, which  *)
(* takes what the socket holds, up to the 64 bytes the Vec reserves.        *)

\* The numbers of bytes that one try_read_buf may return
ReadSizes == {1, 18, 19, 64}

\* The bytes of the stream not yet read
Unread == Len(StreamBytes(conn_stream)) - conn_arrived

\* The remote end has closed and every byte it wrote has been read: read
\* reports the end of the stream
AtEndOfStream == conn_closed /\ Unread = 0

\* get_message is called and enters read_data_from_tcp_connection
ConnCall ==
    /\ ~conn_stopped
    /\ ~conn_reading
    /\ conn_reading' = TRUE
    /\ conn_last' = ConnNoCall
    /\ UNCHANGED <<conn_stream, conn_arrived, conn_buffer, conn_got,
                   conn_stopped, conn_closed, peerVars, queueVars, ribVars,
                   codecVars, spkVars>>

\* Line 78: try_read_buf returns Ok(n) with n > 0; the bytes are put into
\* the buffer and the loop goes round
ConnTryReadBuf(n) ==
    /\ conn_reading
    /\ n <= Unread
    /\ conn_buffer' = conn_buffer
                        \o SubSeq(StreamBytes(conn_stream), conn_arrived + 1,
                                  conn_arrived + n)
    /\ conn_arrived' = conn_arrived + n
    /\ UNCHANGED <<conn_stream, conn_got, conn_stopped, conn_last,
                   conn_closed, conn_reading, peerVars, queueVars, ribVars,
                   codecVars, spkVars>>

\* Line 76: try_read_buf returns Ok(0); the arm does nothing and the loop
\* goes round
ConnReadZero ==
    /\ conn_reading
    /\ AtEndOfStream
    /\ conn_last' = [ConnNoCall EXCEPT !.returned = "Ok(0)"]
    /\ UNCHANGED <<conn_stream, conn_arrived, conn_buffer, conn_got,
                   conn_stopped, conn_closed, conn_reading, peerVars,
                   queueVars, ribVars, codecVars, spkVars>>

\* Line 80: try_read_buf returns WouldBlock, the loop breaks, and
\* get_message goes on to lines 44-45 and returns
ConnWouldBlock ==
    LET split == SplitBufferAtMessageSeparator(conn_buffer)
        decoded == MessageTryFrom(split.frame)
    IN /\ conn_reading
       /\ ~AtEndOfStream
       /\ conn_reading' = FALSE
       /\ conn_buffer' = split.buffer
       /\ conn_stopped' = (split.some /\ decoded.result = "Panic")
       /\ conn_got' = IF split.some /\ decoded.result = "Ok"
                      THEN Append(conn_got, decoded.value)
                      ELSE conn_got
       /\ conn_last' =
            IF ~split.some THEN [ConnNoCall EXCEPT !.returned = "None"]
            ELSE [returned |-> CASE decoded.result = "Ok" -> "Some"
                                 [] decoded.result = "Err" -> "None"
                                 [] decoded.result = "Panic" -> "Panic",
                  frame |-> split.frame,
                  decoded |-> decoded.result]
       /\ UNCHANGED <<conn_stream, conn_arrived, conn_closed, peerVars,
                      queueVars, ribVars, codecVars, spkVars>>

\* The remote end may close the connection after the frames it writes
InitReadOnly ==
    /\ connect_ok = [p \in Peers |-> TRUE]
    /\ write_ok = [p \in Peers |-> TRUE]
    /\ kernel_has = [p \in Peers |-> Config[p].networks]
    /\ InitPeers
    /\ InitQueue
    /\ lab_adj_rib_in = RibNew
    /\ lab_loc_rib = LocRibNew(Config[1], Config[1].networks)
    /\ lab_adj_rib_out = RibNew
    /\ lab_last = LabNoCall
    /\ lab_calls = 0
    /\ codec_last = CodecNoCall
    /\ conn_stream \in ConnStreams
    /\ conn_closed \in BOOLEAN
    /\ InitConn
    /\ spk_fail = {}
    /\ spk_netlink_ok = TRUE
    /\ InitSpeaker

NextRead ==
    \/ ConnCall
    \/ \E n \in ReadSizes : ConnTryReadBuf(n)
    \/ ConnReadZero
    \/ ConnWouldBlock

SpecRead == InitReadOnly /\ [][NextRead]_vars

\* The task that called get_message keeps running: the loop takes its next
\* pass
FairSpecRead == SpecRead /\ WF_vars(NextRead)

-----------------------------------------------------------------------------

(* The peers of one speaker, which share its LocRib behind a Mutex.  Each   *)
(* peer is Established; its task runs Peer::next again and again.  A step   *)
(* of a task runs from one await at which the task may be suspended to the  *)
(* next: spk_pc names the line of peer.rs (or routing.rs for l295) whose    *)
(* await the task stands at.  A lock().await is passed only when the Mutex  *)
(* is free; the guard it returns is dropped at the end of its statement.    *)

\* The Updates that the remote end of peer t sends: a route to NetB with a
\* NextHop and one without
SpkUpdates(t) ==
    LET c == SpeakerConfig[t]
    IN {NewUpdate(<<Origin("Igp"), AsSequence(<<c.remote_as>>),
                    NextHop(c.remote_ip)>>, <<NetB>>, <<>>),
        NewUpdate(<<Origin("Igp"), AsSequence(<<c.remote_as>>)>>,
                  <<NetB>>, <<>>)}

\* The inner loop of write_to_kernel_routing_table finds a NextHop
HasNextHop(e) ==
    \E i \in 1..Len(e.path_attributes) : e.path_attributes[i].type = "NextHop"

\* What no step of the speaker changes
SpkFrame ==
    UNCHANGED <<spk_fail, spk_netlink_ok, peerVars, queueVars, ribVars,
                codecVars, connVars>>

\* What no step but the install into the LocRib changes
SpkKeeps == UNCHANGED spk_added /\ SpkFrame

\* Peer::next, lines 58-61, up to the first await of the handler
SpkDequeue(t) ==
    LET c == SpeakerConfig[t]
        d == Dequeue(spk_queue[t])
        type == d.event.type
        in == InstallFromUpdate(spk_adj_rib_in[t], d.event.message)
    IN
    /\ spk_pc[t] = "dequeue"
    /\ spk_queue' = [spk_queue EXCEPT ![t] =
            IF type = "UpdateMsg" /\ DoesContainNewRoute(in)
            THEN Enqueue(d.queue, Event("AdjRibInChanged"))
            ELSE d.queue]
    /\ spk_adj_rib_in' = [spk_adj_rib_in EXCEPT ![t] =
            IF type = "UpdateMsg"
            THEN IF DoesContainNewRoute(in) THEN UpdateToAllUnchanged(in)
                 ELSE in
            ELSE @]
    /\ \E updates \in IF type = "AdjRibOutChanged"
                      THEN CreateUpdateMessages(spk_adj_rib_out[t],
                                                c.local_ip, c.local_as)
                      ELSE {<<>>} :
        /\ spk_sending' = [spk_sending EXCEPT ![t] = updates]
        /\ spk_pc' = [spk_pc EXCEPT ![t] =
                CASE type = "AdjRibInChanged" -> "l194"
                  [] type \in {"Established", "LocRibChanged"} -> "l144"
                  [] type = "AdjRibOutChanged" /\ updates # <<>> -> "l169"
                  [] OTHER -> "recv"]
    /\ UNCHANGED <<spk_loc_rib, spk_lock, spk_adj_rib_out, spk_todo,
                   spk_attempted, spk_kernel, spk_sent, spk_received>>
    /\ SpkKeeps

\* Peer::next, lines 63-68: the message that has arrived, if any, becomes
\* an event
SpkReceive(t) ==
    /\ spk_pc[t] = "recv"
    /\ spk_pc' = [spk_pc EXCEPT ![t] = "dequeue"]
    /\ \/ UNCHANGED <<spk_queue, spk_received>>
       \/ /\ spk_received[t] < MaxUpdates
          /\ spk_received' = [spk_received EXCEPT ![t] = @ + 1]
          /\ \E u \in SpkUpdates(t) :
                spk_queue' = [spk_queue EXCEPT
                                ![t] = Enqueue(@, EventOfMessage(u))]
    /\ UNCHANGED <<spk_loc_rib, spk_lock, spk_adj_rib_in, spk_adj_rib_out,
                   spk_todo, spk_attempted, spk_kernel, spk_sending,
                   spk_sent>>
    /\ SpkKeeps

\* Established | LocRibChanged, lines 144-157: the guard is a local of the
\* arm, and the arm has no await after the lock
SpkInstallToAdjRibOut(t) ==
    LET out == InstallFromLocRib(spk_adj_rib_out[t], spk_loc_rib,
                                 SpeakerConfig[t].remote_as)
    IN
    /\ spk_pc[t] = "l144"
    /\ spk_lock = 0
    /\ spk_adj_rib_out' = [spk_adj_rib_out EXCEPT ![t] =
            IF DoesContainNewRoute(out) THEN UpdateToAllUnchanged(out)
            ELSE out]
    /\ spk_queue' = [spk_queue EXCEPT ![t] =
            IF DoesContainNewRoute(out)
            THEN Enqueue(@, Event("AdjRibOutChanged")) ELSE @]
    /\ spk_pc' = [spk_pc EXCEPT ![t] = "recv"]
    /\ UNCHANGED <<spk_loc_rib, spk_lock, spk_adj_rib_in, spk_todo,
                   spk_attempted, spk_kernel, spk_sending, spk_sent,
                   spk_received>>
    /\ SpkKeeps

\* AdjRibOutChanged, lines 164-170: one send, made without the lock
SpkSend(t) ==
    /\ spk_pc[t] = "l169"
    /\ spk_sent' = [spk_sent EXCEPT ![t] = Append(@, Head(spk_sending[t]))]
    /\ spk_sending' = [spk_sending EXCEPT ![t] = Tail(@)]
    /\ spk_pc' = [spk_pc EXCEPT ![t] =
            IF Tail(spk_sending[t]) = <<>> THEN "recv" ELSE "l169"]
    /\ UNCHANGED <<spk_loc_rib, spk_lock, spk_adj_rib_in, spk_adj_rib_out,
                   spk_queue, spk_todo, spk_attempted, spk_kernel,
                   spk_received>>
    /\ SpkKeeps

\* AdjRibInChanged, lines 191-195 and 200-203: the LocRib is locked to be
\* logged
SpkLog(t) ==
    /\ spk_pc[t] \in {"l194", "l202"}
    /\ spk_lock = 0
    /\ spk_pc' = [spk_pc EXCEPT ![t] = IF @ = "l194" THEN "l196" ELSE "l204"]
    /\ UNCHANGED <<spk_loc_rib, spk_lock, spk_adj_rib_in, spk_adj_rib_out,
                   spk_queue, spk_todo, spk_attempted, spk_kernel,
                   spk_sending, spk_sent, spk_received>>
    /\ SpkKeeps

\* AdjRibInChanged, lines 196-199
SpkInstallFromAdjRibIn(t) ==
    /\ spk_pc[t] = "l196"
    /\ spk_lock = 0
    /\ spk_loc_rib' = InstallFromAdjRibIn(spk_loc_rib, spk_adj_rib_in[t],
                                          SpeakerConfig[t].local_as)
    /\ spk_pc' = [spk_pc EXCEPT ![t] = "l202"]
    /\ UNCHANGED <<spk_lock, spk_adj_rib_in, spk_adj_rib_out, spk_queue,
                   spk_todo, spk_attempted, spk_kernel, spk_sending,
                   spk_sent, spk_received>>
    /\ spk_added' = [spk_added EXCEPT ![t] =
            DOMAIN spk_loc_rib' \ DOMAIN spk_loc_rib]
    /\ SpkFrame

\* AdjRibInChanged, line 204: the guard of the condition is dropped before
\* the block is entered
SpkDoesContainNewRoute(t) ==
    /\ spk_pc[t] = "l204"
    /\ spk_lock = 0
    /\ spk_pc' = [spk_pc EXCEPT ![t] =
            IF DoesContainNewRoute(spk_loc_rib) THEN "l206" ELSE "recv"]
    /\ UNCHANGED <<spk_loc_rib, spk_lock, spk_adj_rib_in, spk_adj_rib_out,
                   spk_queue, spk_todo, spk_attempted, spk_kernel,
                   spk_sending, spk_sent, spk_received>>
    /\ SpkKeeps

\* write_to_kernel_routing_table has returned to line 210, with Ok or with
\* Err: the value is dropped with the guard, and line 211 enqueues
\* LocRibChanged; the task then stands at the lock of line 212
SpkWriteReturns(t) ==
    /\ spk_lock' = 0
    /\ spk_todo' = [spk_todo EXCEPT ![t] = <<>>]
    /\ spk_queue' = [spk_queue EXCEPT
                        ![t] = Enqueue(@, Event("LocRibChanged"))]
    /\ spk_pc' = [spk_pc EXCEPT ![t] = "l212"]

\* AdjRibInChanged, lines 206-210, with routing.rs 281-294: the lock is
\* taken and write_to_kernel_routing_table runs under it up to the first
\* execute().await.  new_connection()? returns at once when it fails; a
\* route without NextHop sends nothing.  The routes come in the order of
\* the HashMap.
SpkWriteBegins(t) ==
    /\ spk_pc[t] = "l206"
    /\ spk_lock = 0
    /\ spk_attempted' = [spk_attempted EXCEPT ![t] = {}]
    /\ IF ~spk_netlink_ok
       THEN SpkWriteReturns(t)
       ELSE \E order \in Perms({e \in Routes(spk_loc_rib) : HasNextHop(e)}) :
                IF order = <<>>
                THEN SpkWriteReturns(t)
                ELSE /\ spk_lock' = t
                     /\ spk_todo' = [spk_todo EXCEPT ![t] = order]
                     /\ spk_pc' = [spk_pc EXCEPT ![t] = "l295"]
                     /\ UNCHANGED spk_queue
    /\ UNCHANGED <<spk_loc_rib, spk_adj_rib_in, spk_adj_rib_out, spk_kernel,
                   spk_sending, spk_sent, spk_received>>
    /\ SpkKeeps

\* routing.rs 288-296: the request for one route is answered.  On an error
\* the ? returns it from write_to_kernel_routing_table; otherwise the loop
\* goes on to the next route with a NextHop.
SpkExecute(t) ==
    LET e == Head(spk_todo[t])
        failed == e.network_address \in spk_fail
    IN
    /\ spk_pc[t] = "l295"
    /\ spk_lock = t
    /\ spk_attempted' = [spk_attempted EXCEPT ![t] = @ \cup {e}]
    /\ spk_kernel' = IF failed THEN spk_kernel ELSE spk_kernel \cup {e}
    /\ IF failed \/ Tail(spk_todo[t]) = <<>>
       THEN SpkWriteReturns(t)
       ELSE /\ spk_todo' = [spk_todo EXCEPT ![t] = Tail(@)]
            /\ UNCHANGED <<spk_lock, spk_queue, spk_pc>>
    /\ UNCHANGED <<spk_loc_rib, spk_adj_rib_in, spk_adj_rib_out,
                   spk_sending, spk_sent, spk_received>>
    /\ SpkKeeps

\* AdjRibInChanged, line 212
SpkUpdateToAllUnchanged(t) ==
    /\ spk_pc[t] = "l212"
    /\ spk_lock = 0
    /\ spk_loc_rib' = UpdateToAllUnchanged(spk_loc_rib)
    /\ spk_pc' = [spk_pc EXCEPT ![t] = "recv"]
    /\ UNCHANGED <<spk_lock, spk_adj_rib_in, spk_adj_rib_out, spk_queue,
                   spk_todo, spk_attempted, spk_kernel, spk_sending,
                   spk_sent, spk_received>>
    /\ SpkKeeps

\* The kernel may refuse any of the networks, and rtnetlink may fail to
\* open its socket
InitSpeakerOnly ==
    /\ connect_ok = [p \in Peers |-> TRUE]
    /\ write_ok = [p \in Peers |-> TRUE]
    /\ kernel_has = [p \in Peers |-> Config[p].networks]
    /\ InitPeers
    /\ InitQueue
    /\ lab_adj_rib_in = RibNew
    /\ lab_loc_rib = LocRibNew(Config[1], Config[1].networks)
    /\ lab_adj_rib_out = RibNew
    /\ lab_last = LabNoCall
    /\ lab_calls = 0
    /\ codec_last = CodecNoCall
    /\ conn_stream = <<>>
    /\ conn_closed = FALSE
    /\ InitConn
    /\ spk_fail \in SUBSET Nets
    /\ spk_netlink_ok \in BOOLEAN
    /\ InitSpeaker

NextSpeaker ==
    \/ \E t \in Peers : SpkDequeue(t)
    \/ \E t \in Peers : SpkReceive(t)
    \/ \E t \in Peers : SpkInstallToAdjRibOut(t)
    \/ \E t \in Peers : SpkSend(t)
    \/ \E t \in Peers : SpkLog(t)
    \/ \E t \in Peers : SpkInstallFromAdjRibIn(t)
    \/ \E t \in Peers : SpkDoesContainNewRoute(t)
    \/ \E t \in Peers : SpkWriteBegins(t)
    \/ \E t \in Peers : SpkExecute(t)
    \/ \E t \in Peers : SpkUpdateToAllUnchanged(t)

SpecSpeaker == InitSpeakerOnly /\ [][NextSpeaker]_vars

\* The steps of the task of peer t
SpkTask(t) ==
    \/ SpkDequeue(t)
    \/ SpkReceive(t)
    \/ SpkInstallToAdjRibOut(t)
    \/ SpkSend(t)
    \/ SpkLog(t)
    \/ SpkInstallFromAdjRibIn(t)
    \/ SpkDoesContainNewRoute(t)
    \/ SpkWriteBegins(t)
    \/ SpkExecute(t)
    \/ SpkUpdateToAllUnchanged(t)

\* The runtime keeps running each task that can take a step
FairSpecSpeaker == SpecSpeaker /\ \A t \in Peers : WF_vars(SpkTask(t))

-----------------------------------------------------------------------------

(* Properties *)

\* The queue left by one dequeue
Popped(q) == SubSeq(q, 1, Len(q) - 1)

\* last' describes a call of handle_event by peer p
Handles(p) ==
    /\ last'.peer = p
    /\ last'.step = "dequeue"
    /\ last'.event # NoEvent

\* The rows of the transition table
TableRows ==
    {<<"Idle", "ManualStart">>, <<"Connect", "TcpConnectionConfirmed">>,
     <<"OpenSent", "BgpOpen">>, <<"OpenConfirm", "KeepAliveMsg">>}
    \cup {<<"Established", t>> :
            t \in {"Established", "LocRibChanged", "AdjRibOutChanged",
                   "UpdateMsg", "AdjRibInChanged"}}

AllConnectOk == \A p \in Peers : connect_ok[p]
BothEstablished == \A p \in Peers : state[p] = "Established"

\* C1: two peers of a pair, one Active and one Passive, each started, whose
\* TCP connect succeeds, both eventually reach Established and stay there
\* when each keeps being ticked; on the way each is in OpenConfirm.
C1_PairReachesEstablished ==
    AllConnectOk =>
        /\ \A p \in Peers : <>(state[p] = "OpenConfirm")
        /\ <>[]BothEstablished

C1_Witness == AllConnectOk /\ BothEstablished

\* C2: handle_event changes the state only by the four steps Idle to Connect
\* on ManualStart, Connect to OpenSent on TcpConnectionConfirmed, OpenSent
\* to OpenConfirm on BgpOpen, OpenConfirm to Established on KeepAliveMsg;
\* nothing else changes the state, and no event handled in Established
\* leaves Established.
C2_OnlyFourSteps ==
    [][\A p \in Peers :
        state'[p] # state[p] =>
            /\ Handles(p)
            /\ <<state[p], last'.event.type, state'[p]>> \in
                 {<<"Idle", "ManualStart", "Connect">>,
                  <<"Connect", "TcpConnectionConfirmed", "OpenSent">>,
                  <<"OpenSent", "BgpOpen", "OpenConfirm">>,
                  <<"OpenConfirm", "KeepAliveMsg", "Established">>}]_vars

C2_Witness ==
    /\ BothEstablished
    /\ last.step = "dequeue"
    /\ last.pre_state = "Established"
    /\ last.event.type = "UpdateMsg"

\* C3: for every (state, event) pair that is no row of the transition
\* table, handle_event changes nothing: the state, the RIBs and the
\* connection stay as they are, nothing is sent and nothing is enqueued
\* (the queue is the one the dequeue left).
C3_OtherPairsAreNoOps ==
    [][\A p \in Peers :
        (Handles(p) /\ <<state[p], last'.event.type>> \notin TableRows) =>
            /\ state'[p] = state[p]
            /\ last'.sent = <<>>
            /\ rcv' = rcv
            /\ event_queue'[p] = Popped(event_queue[p])
            /\ adj_rib_in' = adj_rib_in
            /\ adj_rib_out' = adj_rib_out
            /\ loc_rib' = loc_rib
            /\ tcp_connection' = tcp_connection
            /\ ~last'.kernel_written
            /\ ~panicked'[p]]_vars

C3_Witness ==
    /\ last.step = "dequeue"
    /\ last.pre_state = "OpenSent"
    /\ last.event.type = "UpdateMsg"

\* The step that last' describes is the first, the last, of a tick of p
FirstOfTick(p) == pc[p] = 1
LastOfTick(p) == pc'[p] = 1 /\ pc[p] = Len(TickOrder)

C5_ConnectThenOpenSent ==
    \A p \in Peers :
        (connect_ok[p] /\ pc[p] = 1) =>
            /\ ticks[p] = 1 => state[p] = "Connect"
            /\ ticks[p] = 2 => state[p] = "OpenSent"

C5_Witness ==
    /\ connect_ok[1]
    /\ pc[1] = 1
    /\ ticks[1] = 2
    /\ state[1] = "OpenSent"
    /\ \E i \in DOMAIN event_queue[1] : event_queue[1][i].type = "BgpOpen"
    /\ rcv[1] # <<>>

\* C6: the event queue is a FIFO: each dequeue returns the oldest event
\* enqueued and not yet returned, and returns nothing when there is none.
QueueReturned == SelectSeq(eq_out, LAMBDA e : e # NoEvent)
QueuePending == SubSeq(eq_in, Len(QueueReturned) + 1, Len(eq_in))

C6_QueueIsFifo ==
    [][Len(eq_out') = Len(eq_out) + 1 =>
        eq_out'[Len(eq_out')] =
            IF QueuePending = <<>> THEN NoEvent ELSE Head(QueuePending)]_vars

C6_Witness ==
    /\ Len(QueueReturned) >= 2
    /\ QueueReturned[1] # QueueReturned[2]
    /\ QueueReturned = SubSeq(eq_in, 1, Len(QueueReturned))
    /\ eq_out[Len(eq_out)] = NoEvent
    /\ eq_in # QueueReturned \/ Len(eq_out) > Len(QueueReturned)

\* last' describes a call of handle_event by peer p, in Established, with
\* an event of one of the given types
HandlesEstablished(p, types) ==
    /\ Handles(p)
    /\ state[p] = "Established"
    /\ last'.event.type \in types

\* The AsPath of the route e holds the AS number
AsPathHolds(e, as_number) ==
    \E i \in DOMAIN e.path_attributes :
        /\ e.path_attributes[i].type = "AsPath"
        /\ \E j \in DOMAIN e.path_attributes[i].ases :
              e.path_attributes[i].ases[j] = as_number

AllUnchanged(rib) == \A e \in DOMAIN rib : rib[e] = "UnChanged"

\* The queue of p after the handler is the one the dequeue left with the
\* events in `enqueued` (at most one) put in
QueueAfter(p, enqueued) ==
    event_queue'[p] = enqueued \o Popped(event_queue[p])

\* C7: in Established, handling Established or LocRibChanged puts into
\* AdjRibOut every LocRib route whose AsPath does not hold remote_as and no
\* other; AdjRibOutChanged is enqueued exactly when one of these routes was
\* not yet in AdjRibOut; afterwards every AdjRibOut entry is Unchanged.
C7_InstallToAdjRibOut ==
    [][\A p \in Peers :
        HandlesEstablished(p, {"Established", "LocRibChanged"}) =>
            LET passed == {e \in DOMAIN loc_rib[p] :
                             ~AsPathHolds(e, Config[p].remote_as)}
            IN /\ DOMAIN adj_rib_out'[p] = DOMAIN adj_rib_out[p] \cup passed
               /\ IF passed \subseteq DOMAIN adj_rib_out[p]
                  THEN QueueAfter(p, <<>>)
                  ELSE QueueAfter(p, <<Event("AdjRibOutChanged")>>)
               /\ AllUnchanged(adj_rib_out'[p])]_vars

C7_Witness ==
    /\ last.step = "dequeue"
    /\ last.pre_state = "Established"
    /\ last.event.type = "LocRibChanged"
    /\ \E e \in DOMAIN loc_rib[1] :
          AsPathHolds(e, Config[1].remote_as) /\ e \notin DOMAIN adj_rib_out[1]
    /\ \E e \in DOMAIN adj_rib_out[1] : AsPathHolds(e, AS64514)
    /\ event_queue[1] # <<>>
    /\ event_queue[1][1].type = "AdjRibOutChanged"
    /\ last.peer = 1

\* C8: in Established, handling AdjRibOutChanged sends one Update for each
\* attribute list present in AdjRibOut and nothing else; the NLRI of the
\* Update of a list holds the networks of the entries carrying that list,
\* each once, so the NLRI of the Updates together are the networks of
\* AdjRibOut, one for each entry.  (The Update of a list is told by its
\* first attribute, the Origin, which the rewrite leaves alone.)
C8_OneUpdatePerAttributeList ==
    [][\A p \in Peers :
        HandlesEstablished(p, {"AdjRibOutChanged"}) =>
            LET entries == DOMAIN adj_rib_out[p]
                lists == {e.path_attributes : e \in entries}
                networks(a) == {e.network_address :
                                  e \in {x \in entries : x.path_attributes = a}}
                sent == last'.sent
                nlri(i) == sent[i].network_layer_reachability_information
            IN /\ Len(sent) = Cardinality(lists)
               /\ \A i \in DOMAIN sent : sent[i].type = "Update"
               /\ \E f \in [lists -> DOMAIN sent] :
                    /\ \A a, b \in lists : f[a] = f[b] => a = b
                    /\ \A a \in lists :
                          /\ {nlri(f[a])[k] : k \in DOMAIN nlri(f[a])}
                                = networks(a)
                          /\ Len(nlri(f[a])) = Cardinality(networks(a))
                          /\ sent[f[a]].path_attributes[1] = a[1]
               /\ rcv'[Remote(p)] = rcv[Remote(p)] \o sent]_vars

C8_Witness ==
    /\ last.step = "dequeue"
    /\ last.pre_state = "Established"
    /\ last.event.type = "AdjRibOutChanged"
    /\ Len(last.sent) = 2
    /\ \E i \in DOMAIN last.sent :
          Len(last.sent[i].network_layer_reachability_information) = 2

\* C9: in Established, handling UpdateMsg(u) puts into AdjRibIn the entry
\* (network, u.path_attributes) for each NLRI network of u and no other;
\* AdjRibInChanged is enqueued exactly when one of these entries was not
\* yet in AdjRibIn; afterwards every AdjRibIn entry is Unchanged.
C9_InstallFromUpdate ==
    [][\A p \in Peers :
        HandlesEstablished(p, {"UpdateMsg"}) =>
            LET u == last'.event.message
                nlri == u.network_layer_reachability_information
                carried == {[network_address |-> nlri[k],
                             path_attributes |-> u.path_attributes] :
                               k \in DOMAIN nlri}
            IN /\ DOMAIN adj_rib_in'[p] = DOMAIN adj_rib_in[p] \cup carried
               /\ IF carried \subseteq DOMAIN adj_rib_in[p]
                  THEN QueueAfter(p, <<>>)
                  ELSE QueueAfter(p, <<Event("AdjRibInChanged")>>)
               /\ AllUnchanged(adj_rib_in'[p])]_vars

\* An Update whose entries were all present has just been handled: the
\* handler enqueued nothing
C9_Witness ==
    /\ last.step = "dequeue"
    /\ last.pre_state = "Established"
    /\ last.event.type = "UpdateMsg"
    /\ last.event.message.network_layer_reachability_information # <<>>
    /\ event_queue[last.peer] = <<>>

\* C10: in Established, handling AdjRibInChanged puts the AdjRibIn routes
\* that install_from_adj_rib_in passes (those whose AsPath does not hold
\* local_as) into LocRib.  If LocRib then has a New entry,
\* write_to_kernel_routing_table is called, LocRibChanged is enqueued and
\* every LocRib entry becomes Unchanged; if it has none, no kernel write is
\* made, nothing is enqueued and no status changes.
C10_InstallToLocRib ==
    [][\A p \in Peers :
        HandlesEstablished(p, {"AdjRibInChanged"}) =>
            LET passed == {e \in DOMAIN adj_rib_in[p] :
                             ~AsPathHolds(e, Config[p].local_as)}
                has_new == \/ \E e \in DOMAIN loc_rib[p] : loc_rib[p][e] = "New"
                           \/ ~(passed \subseteq DOMAIN loc_rib[p])
            IN /\ DOMAIN loc_rib'[p] = DOMAIN loc_rib[p] \cup passed
               /\ IF has_new
                  THEN /\ last'.kernel_written
                       /\ QueueAfter(p, <<Event("LocRibChanged")>>)
                       /\ AllUnchanged(loc_rib'[p])
                  ELSE /\ ~last'.kernel_written
                       /\ QueueAfter(p, <<>>)
                       /\ loc_rib'[p] = loc_rib[p]]_vars

C10_Witness ==
    /\ last.step = "dequeue"
    /\ last.pre_state = "Established"
    /\ last.event.type = "AdjRibInChanged"
    /\ last.kernel_written
    /\ event_queue[last.peer] # <<>>
    /\ event_queue[last.peer][1].type = "LocRibChanged"
    /\ Cardinality(DOMAIN loc_rib[last.peer]) >= 2

\* The other case of C10: LocRib has no New entry after the install
C10_NoNewEntry ==
    /\ last.step = "dequeue"
    /\ last.pre_state = "Established"
    /\ last.event.type = "AdjRibInChanged"
    /\ ~last.kernel_written

\* The number of events of the given type in the queue q
CountOf(q, type) == Cardinality({i \in DOMAIN q : q[i].type = type})

\* C11: one handling of Established or LocRibChanged that adds entries to
\* AdjRibOut enqueues exactly one AdjRibOutChanged whatever the number of
\* entries added; one that adds none enqueues nothing; neither sends an
\* Update itself.  AdjRibOutChanged is enqueued by nothing else, and an
\* Update is sent only by the handling of an AdjRibOutChanged, so that a
\* handling that adds no entry causes no Update.
C11_OneCascadePerBatch ==
    [][\A p \in Peers :
        LET added == DOMAIN adj_rib_out'[p] \ DOMAIN adj_rib_out[p]
            more == CountOf(event_queue'[p], "AdjRibOutChanged")
                      - CountOf(Popped(event_queue[p]), "AdjRibOutChanged")
        IN /\ HandlesEstablished(p, {"Established", "LocRibChanged"}) =>
                /\ UpdatesIn(last'.sent) = <<>>
                /\ rcv' = rcv
                /\ IF added # {}
                   THEN more = 1 /\ Len(event_queue'[p]) = Len(event_queue[p])
                   ELSE event_queue'[p] = Popped(event_queue[p])
           /\ (Handles(p) /\ more > 0) =>
                /\ HandlesEstablished(p, {"Established", "LocRibChanged"})
                /\ added # {}
           /\ (last'.peer = p /\ UpdatesIn(last'.sent) # <<>>) =>
                HandlesEstablished(p, {"AdjRibOutChanged"})]_vars

\* A LocRibChanged was handled with routes in LocRib that are not passed on:
\* nothing was added and nothing enqueued
C11_Witness ==
    /\ last.step = "dequeue"
    /\ last.pre_state = "Established"
    /\ last.event.type = "LocRibChanged"
    /\ event_queue[last.peer] = <<>>
    /\ DOMAIN loc_rib[last.peer] \ DOMAIN adj_rib_out[last.peer] # {}
    /\ Cardinality(DOMAIN adj_rib_out[last.peer]) >= 1

\* A handling that added two entries at once enqueued one AdjRibOutChanged
C11_BatchOfTwo ==
    /\ last.step = "dequeue"
    /\ last.pre_state = "Established"
    /\ last.event.type = "LocRibChanged"
    /\ Cardinality(DOMAIN adj_rib_out[last.peer]) >= 3
    /\ CountOf(event_queue[last.peer], "AdjRibOutChanged") = 1

\* lab_last' describes the given call on the stand-alone RIBs
LabCalls(call) == lab_calls' = lab_calls + 1 /\ lab_last'.call = call

C12_OnlyLoopedRoutes ==
    /\ lab_last.call = "install_from_adj_rib_in"
    /\ lab_adj_rib_in # RibNew
    /\ \A e \in DOMAIN lab_adj_rib_in : AsPathHolds(e, Config[1].local_as)

Occurrences(as_path, as_number) ==
    Cardinality({j \in DOMAIN as_path.ases : as_path.ases[j] = as_number})

\* The attribute `new` is what an Update carries for the attribute `old` of
\* a route: an AsPath with local_as once more (at the end of a sequence, as
\* a member of a set), a NextHop that is local_ip, anything else as it was
Rewritten(old, new, local_ip, local_as) ==
    CASE old.type = "AsPath" ->
            /\ new.type = "AsPath"
            /\ new.kind = old.kind
            /\ new.origin = old.origin /\ new.ip = old.ip
            /\ Occurrences(new, local_as) = Occurrences(old, local_as) + 1
            /\ IF old.kind = "AsSequence"
               THEN /\ Len(new.ases) = Len(old.ases) + 1
                    /\ \A j \in DOMAIN old.ases : new.ases[j] = old.ases[j]
                    /\ new.ases[Len(new.ases)] = local_as
               ELSE /\ {new.ases[j] : j \in DOMAIN new.ases} =
                         {old.ases[j] : j \in DOMAIN old.ases} \cup {local_as}
                    /\ \A j \in 1..(Len(new.ases) - 1) :
                         new.ases[j] < new.ases[j + 1]
      [] old.type = "NextHop" ->
            new = [old EXCEPT !.ip = local_ip]
      [] OTHER -> new = old

OneLocalRoute(p) ==
    /\ Cardinality(Config[p].networks) = 1
    /\ kernel_has[p] = Config[p].networks

\* The Update that advertises the one locally originated route of p
LocalRouteUpdate(p) ==
    [type |-> "Update", my_as_number |-> 0, bgp_identifier |-> "",
     path_attributes |->
        <<[type |-> "Origin", origin |-> "Igp", kind |-> "", ases |-> <<>>,
           ip |-> ""],
          [type |-> "AsPath", origin |-> "", kind |-> "AsSequence",
           ases |-> <<Config[p].local_as>>, ip |-> ""],
          [type |-> "NextHop", origin |-> "", kind |-> "", ases |-> <<>>,
           ip |-> Config[p].local_ip]>>,
     network_layer_reachability_information |->
        <<CHOOSE n \in Config[p].networks : TRUE>>,
     withdrawn_routes |-> <<>>]

\* No Update has been handled by p: its AdjRibIn is as it was built
NoUpdateHandled(p) == adj_rib_in[p] = [e \in {} |-> "New"]

\* C15: a peer whose LocRib holds exactly one locally originated route and
\* that has handled no Update sends, in the steps that follow its becoming
\* Established, one Update and no more: nothing is sent before the
\* AdjRibOutChanged that the Established event enqueues is handled, that
\* handling sends the Update of the route (NLRI the network, NextHop
\* local_ip, AsPath AsSequence([local_as]), Origin IGP) and no other, and,
\* once the Established and AdjRibOutChanged events have left the queue, one
\* Update has been sent and none follows while no Update is handled.
C15_OneUpdateOnEstablished ==
    [][\A p \in Peers :
        (OneLocalRoute(p) /\ NoUpdateHandled(p)) =>
            /\ updates_sent[p] <= 1
            /\ updates_sent'[p] <= 1
            /\ updates_sent'[p] > updates_sent[p] =>
                /\ HandlesEstablished(p, {"AdjRibOutChanged"})
                /\ last'.sent = <<LocalRouteUpdate(p)>>
                /\ rcv'[Remote(p)] = Append(rcv[Remote(p)],
                                            LocalRouteUpdate(p))
            /\ (/\ state'[p] = "Established"
                /\ CountOf(event_queue'[p], "Established") = 0
                /\ CountOf(event_queue'[p], "AdjRibOutChanged") = 0
                /\ NoUpdateHandled(p)') => updates_sent'[p] = 1]_vars

\* The peer has sent its one Update and then kept taking steps: it has read
\* and dropped a Keepalive since
C15_Witness ==
    /\ OneLocalRoute(1)
    /\ NoUpdateHandled(1)
    /\ updates_sent[1] = 1
    /\ last.peer = 1
    /\ last.step = "dequeue"
    /\ last.event.type = "KeepAliveMsg"
    /\ last.pre_state = "Established"
    /\ event_queue[1] = <<>>

\* The stand-alone RIB that the call described by lab_last' was made on,
\* before and after the call
LabBefore == LabRib(lab_last'.on)
LabAfter ==
    CASE lab_last'.on = "adj_rib_in" -> lab_adj_rib_in'
      [] lab_last'.on = "loc_rib" -> lab_loc_rib'
      [] lab_last'.on = "adj_rib_out" -> lab_adj_rib_out'

\* C16: Rib.insert of an entry that is present leaves the Rib as it was,
\* the status of the entry included (an Unchanged entry stays Unchanged), so
\* that a second insert of the same entry changes nothing; insert of an
\* absent entry adds it with status New and touches no other entry.
C16_InsertKeepsStatus ==
    [][LabCalls("insert") =>
        LET e == lab_last'.entry
        IN /\ e \in DOMAIN LabBefore => LabAfter = LabBefore
           /\ e \notin DOMAIN LabBefore =>
                /\ DOMAIN LabAfter = DOMAIN LabBefore \cup {e}
                /\ LabAfter[e] = "New"
                /\ \A x \in DOMAIN LabBefore : LabAfter[x] = LabBefore[x]
           /\ RibInsert(LabAfter, e) = LabAfter]_vars

\* An entry that was present and Unchanged has been inserted again
C16_Witness ==
    /\ lab_last.call = "insert"
    /\ lab_last.entry \in DOMAIN lab_adj_rib_in
    /\ lab_adj_rib_in[lab_last.entry] = "UnChanged"
    /\ Cardinality(DOMAIN lab_adj_rib_in) >= 2

\* C17: update_to_all_unchanged keeps the set of entries and leaves none
\* New, so that does_contain_new_route is false after it;
\* does_contain_new_route returns true exactly when some entry is New, and
\* changes nothing.
C17_NoNewAfterUpdateToAllUnchanged ==
    [][/\ LabCalls("update_to_all_unchanged") =>
            /\ DOMAIN LabAfter = DOMAIN LabBefore
            /\ \A e \in DOMAIN LabAfter : LabAfter[e] # "New"
            /\ ~DoesContainNewRoute(LabAfter)
       /\ LabCalls("does_contain_new_route") =>
            /\ LabAfter = LabBefore
            /\ lab_last'.flag =
                 ({e \in DOMAIN LabBefore : LabBefore[e] = "New"} # {})]_vars

\* update_to_all_unchanged has run on a RIB that held a New entry, and
\* does_contain_new_route has then returned false
C17_Witness ==
    /\ lab_last.call = "does_contain_new_route"
    /\ ~lab_last.flag
    /\ LabRib(lab_last.on) # RibNew
    /\ lab_last.on = "adj_rib_in"

\* does_contain_new_route has returned true
C17_SomeNew ==
    /\ lab_last.call = "does_contain_new_route"
    /\ lab_last.flag

\* ceil(prefix / 8)
CeilOctets(prefix) == (prefix + 7) \div 8

\* The network n with the bits after its prefix cleared
Canonical(n) == Ipv4Network(NetworkOf(n), n.prefix)

\* C20 as stated: for every Ipv4Network n with a prefix length in 0..32,
\* the bytes of n convert back to n, their number is 1 + ceil(prefix / 8)
\* and is what bytes_len reports, and the bytes of a list of networks
\* convert back to the list.
C20_RoundTrip ==
    /\ codec_last.call = "network" =>
          /\ Len(codec_last.bytes) = 1 + CeilOctets(codec_last.input.prefix)
          /\ codec_last.bytes_len = Len(codec_last.bytes)
          /\ codec_last.decoded = Ok(<<codec_last.input>>)
    /\ codec_last.call = "networks" =>
          codec_last.decoded = Ok(codec_last.input)

\* C20: the bytes of a network n with a prefix length in 0..32 convert back
\* to n with the bits after the prefix cleared, which is n exactly when n
\* holds a network address; their number is 1 + ceil(prefix / 8) and is
\* what bytes_len reports; the bytes of a list of networks convert back to
\* the list of the networks with those bits cleared.
C20_NetworkAddressRoundTrip ==
    /\ codec_last.call = "network" =>
          LET n == codec_last.input
          IN /\ Len(codec_last.bytes) = 1 + CeilOctets(n.prefix)
             /\ codec_last.bytes_len = Len(codec_last.bytes)
             /\ codec_last.decoded = Ok(<<Canonical(n)>>)
             /\ (codec_last.decoded = Ok(<<n>>)) <=> (NetworkOf(n) = n.addr)
    /\ codec_last.call = "networks" =>
          LET networks == codec_last.input
          IN /\ codec_last.bytes_len = Len(codec_last.bytes)
             /\ codec_last.decoded =
                   Ok([k \in 1..Len(networks) |-> Canonical(networks[k])])

\* A list of a /0 and a /25 network address has been converted and read
\* back as it was
C20_Witness ==
    /\ codec_last.call = "networks"
    /\ Len(codec_last.input) = 2
    /\ codec_last.input[1].prefix = 0
    /\ codec_last.input[2].prefix = 25
    /\ codec_last.decoded = Ok(codec_last.input)

\* A single /24 network address has been converted and read back
C20_SlashTwentyFour ==
    /\ codec_last.call = "network"
    /\ codec_last.input = Ipv4Network(<<10, 100, 220, 0>>, 24)
    /\ codec_last.decoded = Ok(<<codec_last.input>>)

\* The number of bytes of the value of the attribute p on the wire
ValueLength(p) ==
    CASE p.type = "Origin" -> 1
      [] p.type = "AsPath" -> 2 + 2 * Len(p.ases)
      [] p.type = "NextHop" -> 4

\* The length field of the attribute bytes holds value_length, in two
\* bytes with bit 4 of the flag set exactly when value_length > 255, and the
\* value is all that follows
LengthFieldMatches(bytes, value_length) ==
    IF value_length > 255
    THEN /\ (bytes[1] \div 16) % 2 = 1
         /\ bytes[3] * 256 + bytes[4] = value_length
         /\ Len(bytes) = 4 + value_length
    ELSE /\ (bytes[1] \div 16) % 2 = 0
         /\ bytes[3] = value_length
         /\ Len(bytes) = 3 + value_length

\* C19: for every PathAttribute p other than an unknown one, the bytes of p
\* convert back to p, and the length field of the bytes is the length of
\* the value, written in two bytes with the extended-length flag exactly
\* when the value is longer than 255 bytes.
C19_PathAttributeRoundTrip ==
    codec_last.call = "path_attribute" =>
        /\ LengthFieldMatches(codec_last.bytes, ValueLength(codec_last.input))
        /\ codec_last.decoded = Ok(<<codec_last.input>>)

\* The part of C19 about the bytes written holds for every attribute
C19_LengthField ==
    codec_last.call = "path_attribute" =>
        /\ LengthFieldMatches(codec_last.bytes, ValueLength(codec_last.input))
        /\ codec_last.bytes_len = Len(codec_last.bytes)

\* The bytes of every attribute whose value has at most 255 bytes convert
\* back to the attribute
C19_ShortRoundTrip ==
    (/\ codec_last.call = "path_attribute"
     /\ ValueLength(codec_last.input) <= 255) =>
        codec_last.decoded = Ok(<<codec_last.input>>)

\* An AsPath of 126 AS numbers has been converted and read back
C19_LongestShort ==
    /\ codec_last.call = "path_attribute"
    /\ codec_last.input.type = "AsPath"
    /\ Len(codec_last.input.ases) = 126
    /\ codec_last.decoded = Ok(<<codec_last.input>>)

\* An AsPath with the extended length has been converted and reading it
\* back has panicked
C19_ExtendedPanics ==
    /\ codec_last.call = "path_attribute"
    /\ ValueLength(codec_last.input) > 255
    /\ codec_last.decoded = Panic

\* C18: for every message m that OpenMessage::new, KeepaliveMessage::new or
\* UpdateMessage::new builds, the bytes of m convert back to m.
C18_MessageRoundTrip ==
    codec_last.call \in {"open", "keepalive", "update"} =>
        codec_last.decoded = Ok(codec_last.input)

\* Open and Keepalive messages, and Updates whose attributes are all known
\* and have values of at most 255 bytes, convert back to the message with
\* the bits after each prefix cleared
C18_ShortMessagesRoundTrip ==
    /\ codec_last.call \in {"open", "keepalive"} =>
          codec_last.decoded = Ok(codec_last.input)
    /\ (/\ codec_last.call = "update"
        /\ \A k \in 1..Len(codec_last.input.path_attributes) :
              LET p == codec_last.input.path_attributes[k]
              IN p.type # "DontKnow" /\ ValueLength(p) <= 255) =>
          LET m == codec_last.input
              clear(networks) ==
                  [k \in 1..Len(networks) |-> Canonical(networks[k])]
          IN codec_last.decoded =
               Ok([m EXCEPT
                     !.withdrawn_routes = clear(@),
                     !.network_layer_reachability_information = clear(@)])

\* An Update whose AsPath has the extended length has been converted and
\* reading it back has not returned the Update
C18_LongUpdateLost ==
    /\ codec_last.call = "update"
    /\ \E k \in 1..Len(codec_last.input.path_attributes) :
          /\ codec_last.input.path_attributes[k].type = "AsPath"
          /\ ValueLength(codec_last.input.path_attributes[k]) > 255
    /\ codec_last.decoded.result # "Ok"

\* The Update of the last conversion holds an attribute of an unknown kind
HoldsDontKnow(message) ==
    \E k \in 1..Len(message.path_attributes) :
        message.path_attributes[k].type = "DontKnow"

\* The length fields of the Update message are the sizes of what the
\* encoder has written in bytes
UpdateLengthsMatch(message, bytes) ==
    LET withdrawn_len == Len(Ipv4NetworksBytes(message.withdrawn_routes))
        path_attr_len == Len(PathAttributesBytes(message.path_attributes))
        nlri_len ==
            Len(Ipv4NetworksBytes(
                    message.network_layer_reachability_information))
    IN /\ message.header.length
            = 19 + 2 + withdrawn_len + 2 + path_attr_len + nlri_len
       /\ message.header.length = Len(bytes)
       /\ message.withdrawn_routes_length = withdrawn_len
       /\ message.path_attributes_length = path_attr_len

\* C21: for every Update that UpdateMessage::new builds, whatever the kinds
\* of its attributes, the header length is 19 + 2 + withdrawn_len + 2 +
\* path_attr_len + nlri_len and is the number of bytes the encoder writes,
\* and the two inner length fields are the encoded sizes of the withdrawn
\* routes and of the path attributes.
C21_UpdateLengths ==
    codec_last.call = "update" =>
        UpdateLengthsMatch(codec_last.input, codec_last.bytes)

\* The lengths are right for every Update without an unknown attribute
C21_KnownAttributeLengths ==
    (codec_last.call = "update" /\ ~HoldsDontKnow(codec_last.input)) =>
        UpdateLengthsMatch(codec_last.input, codec_last.bytes)

\* An Update with an unknown attribute has been converted and its header
\* length is 3 more than the number of bytes written
C21_DontKnowCountedTwice ==
    /\ codec_last.call = "update"
    /\ HoldsDontKnow(codec_last.input)
    /\ codec_last.input.header.length = Len(codec_last.bytes) + 3

\* C28: decoding a header returns an error exactly when the type byte is
\* not 1, 2 or 4; 1, 2 and 4 decode to Open, Update and Keepalive with the
\* length of the header, whatever the marker bytes are.
C28_HeaderTypes ==
    codec_last.call = "header_from_bytes" =>
        LET type_ == codec_last.bytes[19]
            length == codec_last.bytes[17] * 256 + codec_last.bytes[18]
        IN /\ (codec_last.decoded.result = "Err") <=> (type_ \notin {1, 2, 4})
           /\ type_ = 1 => codec_last.decoded = Ok(HeaderNew(length, "Open"))
           /\ type_ = 2 => codec_last.decoded = Ok(HeaderNew(length, "Update"))
           /\ type_ = 4 =>
                 codec_last.decoded = Ok(HeaderNew(length, "Keepalive"))

\* A header of type 4 whose marker is not all ones has been decoded to a
\* Keepalive header
C28_Witness ==
    /\ codec_last.call = "header_from_bytes"
    /\ codec_last.bytes[1] = 0
    /\ codec_last.bytes[19] = 4
    /\ codec_last.decoded.result = "Ok"
    /\ codec_last.decoded.value.type_ = "Keepalive"

\* A header of type 3 has been refused
C28_TypeThreeRefused ==
    /\ codec_last.call = "header_from_bytes"
    /\ codec_last.bytes[19] = 3
    /\ codec_last.decoded = Err

\* C29: decoding an Open succeeds when its version byte is in 1..4 and
\* fails when the byte is 0 or greater than 4.
C29_VersionOneToFour ==
    codec_last.call = "open_from_bytes" =>
        (codec_last.decoded.result = "Ok")
            <=> (codec_last.input.version \in 1..4)

\* Decoding an Open fails when its version byte is greater than 4 and
\* succeeds for 1..4
C29_VersionUpToFour ==
    (codec_last.call = "open_from_bytes" /\ codec_last.input.version # 0) =>
        /\ (codec_last.decoded.result = "Ok")
              <=> (codec_last.input.version \in 1..4)
        /\ codec_last.decoded.result = "Ok" =>
              codec_last.decoded.value = codec_last.input

\* An Open of version 0 has been decoded without an error
C29_VersionZeroAccepted ==
    /\ codec_last.call = "open_from_bytes"
    /\ codec_last.input.version = 0
    /\ codec_last.decoded = Ok(codec_last.input)

\* C30: the Open that the constructor builds encodes to 29 bytes: 16 bytes
\* 0xFF, the length 29 and the type 1, the version 4, my_as, the hold time
\* 240, the four octets of the identifier and the optional parameter
\* length 0, numbers in big-endian order; the Keepalive that the
\* constructor builds encodes to 19 bytes with length 19 and type 4.
C30_ConstructorBytes ==
    /\ codec_last.call = "open" =>
          /\ Len(codec_last.bytes) = 29
          /\ codec_last.bytes =
                [k \in 1..16 |-> 255] \o <<0, 29, 1, 4>>
                    \o <<codec_last.input.my_as_number \div 256,
                         codec_last.input.my_as_number % 256>>
                    \o <<0, 240>> \o codec_last.input.bgp_identifier
                    \o <<0>>
    /\ codec_last.call = "keepalive" =>
          codec_last.bytes = [k \in 1..16 |-> 255] \o <<0, 19, 4>>

\* The Open of AS 64512 and 10.200.100.3 has been encoded
C30_Witness ==
    /\ codec_last.call = "open"
    /\ codec_last.input.my_as_number = AS64512
    /\ codec_last.input.bgp_identifier = <<10, 200, 100, 3>>
    /\ Len(codec_last.bytes) = 29

\* A Keepalive has been encoded
C30_KeepaliveEncoded ==
    /\ codec_last.call = "keepalive"
    /\ Len(codec_last.bytes) = 19

\* The messages of the frames of the stream, in order
RECURSIVE StreamMessagesFrom(_, _)
StreamMessagesFrom(stream, k) ==
    IF k > Len(stream) THEN <<>>
    ELSE <<ConnMessages[stream[k]]>> \o StreamMessagesFrom(stream, k + 1)

\* s is the beginning of t
IsPrefix(s, t) == Len(s) <= Len(t) /\ s = SubSeq(t, 1, Len(s))

\* Every frame of the stream is well-formed
AllWellFormed == \A k \in 1..Len(conn_stream) : conn_stream[k] \in WellFormed

\* The bytes in the buffer before the call and those that arrive in it
ReadBuffer ==
    conn_buffer \o SubSeq(StreamBytes(conn_stream), conn_arrived + 1,
                          conn_arrived')

\* What C22 says of one call: it returns nothing while the buffer holds
\* fewer than 19 bytes or fewer than the length at bytes 16-17, and
\* otherwise takes exactly that many bytes, leaves the rest and returns
\* the next message
FramedCall ==
    LET read == ReadBuffer
        declared == read[17] * 256 + read[18]
    IN IF Len(read) < 19 \/ Len(read) < declared
       THEN /\ conn_last'.returned = "None"
            /\ conn_buffer' = read
            /\ conn_got' = conn_got
       ELSE /\ conn_last'.returned = "Some"
            /\ conn_last'.frame = SubSeq(read, 1, declared)
            /\ conn_buffer' = SubSeq(read, declared + 1, Len(read))
            /\ Len(conn_got') = Len(conn_got) + 1

\* C22: for a stream that is a concatenation of well-formed messages and
\* arrives in arbitrary chunks, the get_message calls return the messages
\* in order, each once: a call returns None while the buffer holds fewer
\* than 19 bytes or fewer than the length its header declares, and
\* otherwise removes that many bytes, keeps the rest and returns the
\* message.
C22_MessagesInOrder ==
    [][AllWellFormed =>
        /\ FramedCall
        /\ IsPrefix(conn_got', StreamMessagesFrom(conn_stream, 1))]_vars

\* C22 holds for the streams of well-formed messages without LongUpdate
C22_ShortMessagesInOrder ==
    [][(AllWellFormed /\ \A k \in 1..Len(conn_stream) :
                            conn_stream[k] # "LongUpdate") =>
        /\ FramedCall
        /\ IsPrefix(conn_got', StreamMessagesFrom(conn_stream, 1))]_vars

\* Two well-formed messages have been returned, the second from a buffer
\* that held a part of it before the call
C22_TwoReturned ==
    /\ AllWellFormed
    /\ Len(conn_got) = 2
    /\ conn_got = StreamMessagesFrom(conn_stream, 1)
    /\ conn_got[1] # conn_got[2]
    /\ conn_buffer = <<>>

\* The whole frame of a well-formed Update with an AsPath of extended
\* length has arrived and get_message has panicked
C22_LongUpdatePanics ==
    /\ AllWellFormed
    /\ conn_stopped
    /\ conn_last.returned = "Panic"
    /\ conn_last.frame = ConnFrames.LongUpdate

\* The frame that the call has split off did not decode
FrameNotDecoded ==
    /\ conn_last'.returned # "none"
    /\ conn_last'.frame # <<>>
    /\ conn_last'.decoded # "Ok"

\* C23: when a complete frame in the receive buffer does not decode, the
\* task of the peer stops; no such frame is dropped with the task going on
\* to the next one.
C23_MalformedIsFatal ==
    [][FrameNotDecoded => conn_stopped']_vars

\* A frame of an unknown type has been dropped and the message of the
\* frame after it has been returned
C23_DroppedAndContinued ==
    /\ Len(conn_stream) = 2
    /\ conn_stream[1] = "BadType"
    /\ conn_stream[2] = "Keepalive"
    /\ ~conn_stopped
    /\ conn_got = <<ConnMessages.Keepalive>>

\* An Update with the prefix length 33 has been dropped
C23_BadPrefixDropped ==
    /\ conn_last.frame = ConnFrames.BadPrefix
    /\ conn_last.returned = "None"
    /\ ~conn_stopped

\* An Open of version 9 has been dropped
C23_BadVersionDropped ==
    /\ conn_last.frame = ConnFrames.BadVersion
    /\ conn_last.returned = "None"
    /\ ~conn_stopped

\* A truncated Update has stopped the task
C23_TruncatedStops ==
    /\ conn_last.frame = ConnFrames.Truncated
    /\ conn_stopped

-----------------------------------------------------------------------------
(* The connection of a peer *)

\* Peer p holds a connection whenever it has left Idle, and its task has
\* panicked only in Idle, on a connect that failed
HoldsConnection(p) ==
    /\ state[p] # "Idle" => tcp_connection[p]
    /\ panicked[p] => state[p] = "Idle" /\ ~connect_ok[p]

\* C25: ManualStart handled in Idle either obtains the connection, enqueues
\* TcpConnectionConfirmed and moves to Connect, or stops the peer task when
\* the connect fails; in every state reached a peer that is not in Idle
\* holds a connection, so that no later handler finds the connection
\* missing.
C25_ConnectionOnceStarted ==
    [][\A p \in Peers :
        /\ HoldsConnection(p)'
        /\ (Handles(p) /\ state[p] = "Idle"
                /\ last'.event.type = "ManualStart") =>
            \/ /\ connect_ok[p]
               /\ tcp_connection'[p]
               /\ state'[p] = "Connect"
               /\ ~panicked'[p]
               /\ event_queue'[p]
                    = Enqueue(Popped(event_queue[p]),
                              Event("TcpConnectionConfirmed"))
            \/ /\ ~connect_ok[p]
               /\ panicked'[p]
               /\ state'[p] = "Idle"
               /\ ~tcp_connection'[p]]_vars

\* A peer that has left Idle through ManualStart has sent its Open, its
\* Keepalive and an Update over the connection it obtained
C25_Witness ==
    \E p \in Peers :
        /\ state[p] = "Established"
        /\ tcp_connection[p]
        /\ updates_sent[p] > 0
        /\ ~panicked[p]

\* A peer whose connect fails has stopped in Idle without a connection
C25_ConnectFailed ==
    \E p \in Peers : panicked[p] /\ state[p] = "Idle" /\ ~tcp_connection[p]

-----------------------------------------------------------------------------
(* Writes that fail *)

\* The handler that peer p has just run called send on a connection whose
\* writes fail
SendFailed(p) ==
    /\ Handles(p)
    /\ last'.sent # <<>>
    /\ ~write_ok[p]

\* C24: a write error on the connection stops the peer task: when the send
\* of an Open, a Keepalive or an Update fails, the peer does not advance
\* its state as though the message had been sent.
C24_SendFailureIsFatal ==
    [][\A p \in Peers :
        SendFailed(p) => (panicked'[p] /\ state'[p] = state[p])]_vars

\* A peer has moved to OpenSent although its Open was never written: the
\* remote peer, connected and still waiting, has nothing to read
C24_OpenLost ==
    \E p \in Peers :
        /\ ~write_ok[p]
        /\ state[p] = "OpenSent"
        /\ ~panicked[p]
        /\ tcp_connection[Remote(p)]
        /\ state[Remote(p)] = "OpenSent"
        /\ rcv[Remote(p)] = <<>>
        /\ event_queue[Remote(p)] = <<>>

\* A peer has moved to OpenConfirm although its Keepalive was never written
C24_KeepaliveLost ==
    \E p \in Peers :
        /\ ~write_ok[p]
        /\ state[p] = "OpenConfirm"
        /\ last.peer = p
        /\ last.sent = <<NewKeepalive>>
        /\ rcv[Remote(p)] = <<>>

\* An established peer has counted an Update as sent that was never written
C24_UpdateLost ==
    \E p \in Peers :
        /\ ~write_ok[p]
        /\ state[p] = "Established"
        /\ last.peer = p
        /\ last.sent # <<>>
        /\ last.sent[1].type = "Update"
        /\ rcv[Remote(p)] = <<>>
        /\ ~panicked[p]

-----------------------------------------------------------------------------
(* The kernel routing table and the lock of the LocRib *)

\* The call of write_to_kernel_routing_table by the task of t returns in
\* this step
WriteReturns(t) ==
    /\ spk_pc[t] \in {"l206", "l295"}
    /\ spk_pc'[t] = "l212"

\* After the write the task goes on as if it had succeeded: LocRibChanged
\* is enqueued and the task stands at line 212
GoesOn(t) ==
    /\ spk_queue'[t] = Enqueue(spk_queue[t], Event("LocRibChanged"))
    /\ spk_pc'[t] = "l212"

\* C27: the kernel refusing one route does not stop the others:
\* write_to_kernel_routing_table tries to add every route of the LocRib
\* that has a NextHop (and none that has not), whichever of them fail, and
\* the peer then enqueues LocRibChanged and stays Established.
C27_EveryRouteAttempted ==
    [][\A t \in Peers :
        (WriteReturns(t) /\ spk_netlink_ok) =>
            /\ spk_attempted'[t]
                = {e \in Routes(spk_loc_rib) : HasNextHop(e)}
            /\ GoesOn(t)]_vars

\* The part that holds: whatever the kernel answers, the result is dropped,
\* LocRibChanged is enqueued, no route without a NextHop is tried, and
\* every route that has one is tried when none is refused
C27_FailureSwallowed ==
    [][\A t \in Peers :
        WriteReturns(t) =>
            /\ GoesOn(t)
            /\ \A e \in spk_attempted'[t] : HasNextHop(e)
            /\ (spk_netlink_ok /\ spk_fail = {}) =>
                    spk_attempted'[t]
                        = {e \in Routes(spk_loc_rib) : HasNextHop(e)}]_vars

\* A write has returned without trying a route that has a NextHop and that
\* the kernel would have taken; LocRibChanged is enqueued all the same
C27_RouteNeverTried ==
    \E t \in Peers :
        /\ spk_pc[t] = "l212"
        /\ spk_netlink_ok
        /\ spk_queue[t][1] = Event("LocRibChanged")
        /\ \E e \in Routes(spk_loc_rib) :
            /\ HasNextHop(e)
            /\ e.network_address \notin spk_fail
            /\ e \notin spk_attempted[t]
            /\ e \notin spk_kernel

\* A write that no refusal cut short has tried every route with a NextHop
\* and has skipped the route without one
C27_NoNextHopSkipped ==
    \E t \in Peers :
        /\ spk_pc[t] = "l212"
        /\ spk_netlink_ok
        /\ spk_fail = {}
        /\ \E e \in Routes(spk_loc_rib) : ~HasNextHop(e)
        /\ spk_attempted[t] = {e \in Routes(spk_loc_rib) : HasNextHop(e)}
        /\ Cardinality(spk_attempted[t]) > 1

\* The task of t is suspended on an await of I/O: the answer of the kernel
\* to a route request, or the write of an Update to the connection
SuspendedOnIo(t) == spk_pc[t] \in {"l295", "l169"}

\* C26: no peer task holds the lock of the LocRib while it is suspended on
\* an I/O await: each critical section covers only the read or the install
\* and is released before a send or a kernel write is awaited.
C26_NoLockAcrossIo ==
    \A t \in Peers : SuspendedOnIo(t) => spk_lock # t

\* The part that holds: no Update is sent under the lock, and the lock is
\* held only by a task inside write_to_kernel_routing_table
C26_NoLockAcrossSend ==
    /\ \A t \in Peers : spk_pc[t] = "l169" => spk_lock # t
    /\ \A t \in Peers : spk_lock = t <=> spk_pc[t] = "l295"

\* One task waits for the kernel with the lock held while the other stands
\* at a lock().await that it cannot pass
C26_LockHeldAcrossKernelWrite ==
    \E t \in Peers :
        /\ spk_pc[t] = "l295"
        /\ spk_lock = t
        /\ spk_pc[Remote(t)] \in {"l144", "l194", "l196", "l202", "l204",
                                  "l206", "l212"}

\* A task sends an Update while the other holds the lock
C26_SendWithoutLock ==
    \E t \in Peers : spk_pc[t] = "l169" /\ spk_lock = Remote(t)

-----------------------------------------------------------------------------
(* The order of the states *)

\* The place of a state in the order Idle, Connect, OpenSent, OpenConfirm,
\* Established
StateRank(st) ==
    CASE st = "Idle" -> 0
      [] st = "Connect" -> 1
      [] st = "OpenSent" -> 2
      [] st = "OpenConfirm" -> 3
      [] st = "Established" -> 4

\* C38: the state of a peer never goes back: every step leaves it where it
\* is or moves it one place forward in the order Idle, Connect, OpenSent,
\* OpenConfirm, Established; Established is never left; and a ManualStart
\* handled after the peer has left Idle (start called twice) changes
\* nothing but the queue it is taken from.
C38_StateNeverRegresses ==
    [][\A p \in Peers :
        /\ StateRank(state'[p]) \in {StateRank(state[p]),
                                     StateRank(state[p]) + 1}
        /\ state[p] = "Established" => state'[p] = "Established"
        /\ (Handles(p) /\ last'.event.type = "ManualStart"
                /\ state[p] # "Idle") =>
            /\ state'[p] = state[p]
            /\ event_queue'[p] = Popped(event_queue[p])
            /\ tcp_connection'[p] = tcp_connection[p]
            /\ last'.sent = <<>>
            /\ ~panicked'[p]
            /\ UNCHANGED <<loc_rib, adj_rib_in, adj_rib_out, rcv>>]_vars

\* An Established peer has just handled the ManualStart of a second start
C38_Witness ==
    \E p \in Peers :
        /\ state[p] = "Established"
        /\ last.peer = p
        /\ last.step = "dequeue"
        /\ last.event.type = "ManualStart"
        /\ last.pre_state = "Established"
        /\ restarts > 0

\* The second start came while the first ManualStart was still queued: the
\* second ManualStart is handled in Connect
C38_SecondStartInConnect ==
    \E p \in Peers :
        /\ last.peer = p
        /\ last.step = "dequeue"
        /\ last.event.type = "ManualStart"
        /\ last.pre_state = "Connect"

-----------------------------------------------------------------------------
(* The order of the messages sent *)

\* Every message of the sequence is an Update
OnlyUpdates(messages) ==
    \A i \in 1..Len(messages) : messages[i].type = "Update"

\* The sequence is one message, of the type
OneOfType(messages, type) ==
    Len(messages) = 1 /\ messages[1].type = type

\* What peer p sends in this step, the empty sequence when the step is not
\* a handle_event call of p
SentBy(p) == IF Handles(p) THEN last'.sent ELSE <<>>

\* C37: the messages of a peer go out in order: one Open, sent on leaving
\* Connect, then one Keepalive, sent on leaving OpenSent, then only
\* Updates; an Update is sent only in Established and nothing is sent in
\* Idle.  With the state moving forward only, each of Connect and OpenSent
\* is left once, so there is exactly one Open and one Keepalive.
C37_MessagesInOrder ==
    [][\A p \in Peers :
        /\ StateRank(state'[p]) >= StateRank(state[p])
        /\ Handles(p) => rcv'[Remote(p)] = rcv[Remote(p)] \o last'.sent
        /\ (state[p] = "Connect" /\ state'[p] = "OpenSent") <=>
                OneOfType(SentBy(p), "Open")
        /\ (state[p] = "OpenSent" /\ state'[p] = "OpenConfirm") <=>
                OneOfType(SentBy(p), "Keepalive")
        /\ state[p] \in {"Idle", "OpenConfirm"} => SentBy(p) = <<>>
        /\ state[p] = "Established" => OnlyUpdates(SentBy(p))
        /\ updates_sent'[p] = updates_sent[p] + Len(UpdatesIn(SentBy(p)))
        /\ updates_sent'[p] > 0 => state[p] = "Established"]_vars

\* An Established peer, started twice, has just sent an Update; its remote
\* has read the Open and the Keepalive before it
C37_Witness ==
    \E p \in Peers :
        /\ last.peer = p
        /\ last.step = "dequeue"
        /\ last.sent # <<>>
        /\ OnlyUpdates(last.sent)
        /\ state[p] = "Established"
        /\ state[Remote(p)] \in {"OpenConfirm", "Established"}
        /\ restarts > 0

-----------------------------------------------------------------------------
(* The events of the handshake *)

\* The state in which handle_event acts on an event of the type
StateOfEvent(type) ==
    CASE type = "TcpConnectionConfirmed" -> "Connect"
      [] type = "BgpOpen" -> "OpenSent"
      [] type = "KeepAliveMsg" -> "OpenConfirm"
      [] type = "UpdateMsg" -> "Established"

\* C36: in a run of the pair over a channel that keeps the order, no event
\* of the handshake is thrown away: TcpConnectionConfirmed is dequeued in
\* Connect, the BgpOpen of the remote's Open in OpenSent, the KeepAliveMsg
\* of the remote's Keepalive in OpenConfirm and the UpdateMsg of an Update
\* of the Established remote in Established, however the ticks of the two
\* peers and the arrival of the messages interleave.
C36_NoHandshakeEventDiscarded ==
    [][\A p \in Peers :
        (Handles(p)
            /\ last'.event.type \in {"TcpConnectionConfirmed", "BgpOpen",
                                     "KeepAliveMsg", "UpdateMsg"}) =>
            /\ state[p] = StateOfEvent(last'.event.type)
            /\ MatchArm(state[p], last'.event.type) # "_"]_vars

\* The Open of the remote has arrived while the peer is still in Connect:
\* its BgpOpen waits in the queue behind TcpConnectionConfirmed
C36_Witness ==
    \E p \in Peers :
        /\ state[p] = "Connect"
        /\ Len(event_queue[p]) = 2
        /\ event_queue[p][2].type = "TcpConnectionConfirmed"
        /\ event_queue[p][1].type = "BgpOpen"

\* An Established peer has just taken the UpdateMsg of its remote's Update
C36_UpdateTaken ==
    \E p \in Peers :
        /\ last.peer = p
        /\ last.step = "dequeue"
        /\ last.event.type = "UpdateMsg"
        /\ last.pre_state = "Established"

-----------------------------------------------------------------------------
(* Entries stay *)

\* Every entry of rib is an entry of the rib it has become
Grows(rib, after) == DOMAIN rib \subseteq DOMAIN after

\* C39: every RIB only grows: no step of a peer takes an entry out of its
\* AdjRibIn, its LocRib or its AdjRibOut.  An Update handled in Established
\* adds one entry for each network it announces under the attributes it
\* carries, beside the entries the network has under other attributes, and
\* takes nothing out for the networks it withdraws.
C39_RibsOnlyGrow ==
    [][\A p \in Peers :
        /\ Grows(adj_rib_in[p], adj_rib_in'[p])
        /\ Grows(loc_rib[p], loc_rib'[p])
        /\ Grows(adj_rib_out[p], adj_rib_out'[p])
        /\ (Handles(p) /\ last'.event.type = "UpdateMsg"
                /\ state[p] = "Established") =>
            LET u == last'.event.message
            IN DOMAIN adj_rib_in'[p]
                = DOMAIN adj_rib_in[p]
                  \cup {RibEntry(n, u.path_attributes) :
                        n \in Range(
                            u.network_layer_reachability_information)}]_vars

\* A peer has handled an Update that withdraws a network of which its
\* AdjRibIn and its LocRib each still hold the route learned before
C39_Witness ==
    \E p \in Peers :
        /\ last.peer = p
        /\ last.step = "dequeue"
        /\ last.event.type = "UpdateMsg"
        /\ last.pre_state = "Established"
        /\ \E n \in Range(last.event.message.withdrawn_routes) :
            /\ \E e \in DOMAIN adj_rib_in[p] : e.network_address = n
            /\ \E e \in DOMAIN loc_rib[p] :
                    e.network_address = n /\ e \in DOMAIN adj_rib_in[p]

\* A network announced again under other attributes has two entries
C39_TwoEntriesOfOneNetwork ==
    \E p \in Peers :
        \E e, f \in DOMAIN adj_rib_in[p] :
            /\ e.network_address = f.network_address
            /\ e.path_attributes # f.path_attributes
            /\ {e, f} \subseteq DOMAIN loc_rib[p]

-----------------------------------------------------------------------------
(* The status of the entries between ticks *)

\* C40: between ticks the RIBs of a peer carry no entry marked New: when a
\* handle_event call has returned, every entry of the peer's AdjRibIn and
\* of its AdjRibOut has the status UnChanged, since each handler that
\* inserts also clears the marks before it returns.
C40_NoNewBetweenTicks ==
    \A p \in Peers :
        /\ AllUnchanged(adj_rib_in[p])
        /\ AllUnchanged(adj_rib_out[p])

\* A peer has just handled the UpdateMsg that put two entries into its
\* AdjRibIn, and its AdjRibOut holds an entry as well
C40_Witness ==
    \E p \in Peers :
        /\ last.peer = p
        /\ last.step = "dequeue"
        /\ last.event.type = "UpdateMsg"
        /\ Cardinality(DOMAIN adj_rib_in[p]) >= 2
        /\ DOMAIN adj_rib_out[p] # {}
        /\ event_queue[p] # <<>>
        /\ event_queue[p][1].type = "AdjRibInChanged"

-----------------------------------------------------------------------------
(* The end of get_message *)

\* C35: get_message always returns: the loop that drains the socket into
\* the buffer ends in every case, also when the remote end has closed the
\* connection and a read reports 0 bytes, so that no tick hangs inside
\* get_message.
C35_GetMessageReturns == conn_reading ~> ~conn_reading

\* The part that holds: while the remote end keeps the connection open,
\* every call of get_message ends
C35_ReturnsWhileOpen == ~conn_closed => (conn_reading ~> ~conn_reading)

\* The remote end has written a Keepalive and closed; the task has read the
\* 19 bytes and try_read_buf has answered Ok(0): it is still in the loop,
\* the Keepalive in the buffer
C35_SpinsAtEndOfStream ==
    /\ conn_reading
    /\ AtEndOfStream
    /\ conn_last.returned = "Ok(0)"
    /\ conn_stream = <<"Keepalive">>
    /\ Len(conn_buffer) = 19
    /\ conn_got = <<>>

-----------------------------------------------------------------------------
(* Quiescence *)

\* No peer has an event left to handle
QueuesEmpty == \A p \in Peers : event_queue[p] = <<>>

\* This step sends no Update
NoUpdateSent == \A p \in Peers : updates_sent'[p] = updates_sent[p]

\* C31: once the Updates that arrive have arrived, the cascade of UpdateMsg,
\* AdjRibInChanged, LocRibChanged and AdjRibOutChanged comes to an end:
\* when every peer keeps being ticked, the event queues become empty and
\* stay empty, and from then on no Update is sent.
C31_Quiescence ==
    /\ <>[]QueuesEmpty
    /\ <>[][NoUpdateSent]_vars

\* Both peers are Established with nothing left to handle or to read, after
\* an Update of the remote speaker has run through the cascade of peer 1
\* and the Update that came of it through the cascade of peer 2
C31_Witness ==
    /\ BothEstablished
    /\ QueuesEmpty
    /\ \A p \in Peers : rcv[p] = <<>>
    /\ injected = MaxInject
    /\ updates_sent[1] >= 2
    /\ Cardinality(DOMAIN adj_rib_in[2]) >= 2
    /\ Cardinality(DOMAIN loc_rib[2]) >= 3

-----------------------------------------------------------------------------
(* An AdjRibInChanged that adds nothing *)

\* Peer p handles AdjRibInChanged in Established and install_from_adj_rib_in
\* adds no entry to its LocRib
InstallAddsNothing(p) ==
    /\ HandlesEstablished(p, {"AdjRibInChanged"})
    /\ DOMAIN loc_rib'[p] = DOMAIN loc_rib[p]

\* C32: an AdjRibInChanged whose install adds no entry to LocRib (every
\* route of AdjRibIn is there already or is kept out by loop prevention)
\* writes nothing to the kernel routing table and enqueues no
\* LocRibChanged; so also the first AdjRibInChanged after start, when
\* LocRib holds only the routes the speaker originates.
C32_NoWriteWhenNothingAdded ==
    [][\A p \in Peers :
        InstallAddsNothing(p) =>
            /\ ~last'.kernel_written
            /\ QueueAfter(p, <<>>)]_vars

\* The part that holds: when LocRib has no entry marked New before the
\* install and the install adds none, nothing is written or enqueued
C32_NoWriteOnceCleared ==
    [][\A p \in Peers :
        (InstallAddsNothing(p) /\ AllUnchanged(loc_rib[p])) =>
            /\ ~last'.kernel_written
            /\ QueueAfter(p, <<>>)
            /\ loc_rib'[p] = loc_rib[p]]_vars

\* The only route in AdjRibIn is kept out by loop prevention, LocRib holds
\* just the route the speaker originates, and yet the kernel routing table
\* was written and LocRibChanged enqueued
C32_WrittenThoughNothingAdded ==
    \E p \in Peers :
        /\ last.peer = p
        /\ last.step = "dequeue"
        /\ last.pre_state = "Established"
        /\ last.event.type = "AdjRibInChanged"
        /\ last.kernel_written
        /\ event_queue[p] # <<>>
        /\ event_queue[p][1].type = "LocRibChanged"
        /\ DOMAIN loc_rib[p] = DOMAIN LocRibNew(Config[p], kernel_has[p])
        /\ DOMAIN loc_rib[p] # {}
        /\ \A e \in DOMAIN adj_rib_in[p] : AsPathHolds(e, Config[p].local_as)

\* An AdjRibInChanged handled after the marks were cleared added nothing
\* and wrote nothing
C32_NothingAddedNothingWritten ==
    \E p \in Peers :
        /\ last.peer = p
        /\ last.step = "dequeue"
        /\ last.pre_state = "Established"
        /\ last.event.type = "AdjRibInChanged"
        /\ ~last.kernel_written
        /\ DOMAIN adj_rib_in[p] # {}
        /\ DOMAIN loc_rib[p] # {}

-----------------------------------------------------------------------------
(* Routes of the shared LocRib *)

\* The routes that peer t learns from its remote end
SpkLearned(t) ==
    UNION {{RibEntry(n, u.path_attributes) :
                n \in Range(u.network_layer_reachability_information)} :
            u \in SpkUpdates(t)}

\* Peer t has sent an Update that announces the route e as it rewrites it
SpkHasSent(t, e) ==
    \E i \in 1..Len(spk_sent[t]) :
        /\ e.network_address
            \in Range(spk_sent[t][i].network_layer_reachability_information)
        /\ spk_sent[t][i].path_attributes
            = RewriteAttributes(e.path_attributes, SpeakerConfig[t].local_ip,
                                SpeakerConfig[t].local_as)

\* The route e is in the LocRib and loop prevention lets it out to the
\* remote end of peer t
SpkDueTo(t, e) ==
    /\ e \in DOMAIN spk_loc_rib
    /\ ~DoesContainAs(e.path_attributes, SpeakerConfig[t].remote_as)

\* C33: with two Established peers of one speaker sharing the LocRib, a
\* route that one peer installs into the LocRib and whose AsPath does not
\* hold the remote AS of the other peer is in the end put into the other
\* peer's AdjRibOut and sent to its remote end in an Update, when both
\* tasks keep running.
C33_SharedRouteIsPassedOn ==
    \A t \in Peers : \A e \in SpkLearned(Remote(t)) :
        SpkDueTo(t, e) ~> (e \in DOMAIN spk_adj_rib_out[t] /\ SpkHasSent(t, e))

\* Everything has come to rest, with a route in the LocRib that is due to
\* the remote end of a peer whose AdjRibOut does not hold it: the peer has
\* no event left and will get none
C33_RouteNeverPassedOn ==
    \E t \in Peers : \E e \in SpkLearned(Remote(t)) :
        /\ SpkDueTo(t, e)
        /\ e \notin DOMAIN spk_adj_rib_out[t]
        /\ ~SpkHasSent(t, e)
        /\ \A u \in Peers :
            /\ spk_queue[u] = <<>>
            /\ spk_pc[u] \in {"dequeue", "recv"}
            /\ spk_received[u] = MaxUpdates

\* A route that one peer installed has been sent by the other: the other
\* handled an event of its own after the install
C33_PassedOnByChance ==
    \E t \in Peers : \E e \in SpkLearned(Remote(t)) :
        /\ SpkDueTo(t, e)
        /\ e \in DOMAIN spk_adj_rib_in[Remote(t)]
        /\ e \in DOMAIN spk_adj_rib_out[t]
        /\ SpkHasSent(t, e)

\* ---------------------------------------------------------------------
\* C34: with two peers sharing the LocRib, the install, the check for a
\* new route, the enqueue and the clearing of the marks of
\* AdjRibInChanged behave as one step with respect to the other peer: a
\* peer whose install added an entry to the LocRib finds that entry New
\* at its check and goes on to enqueue LocRibChanged, and a peer whose
\* install added nothing enqueues no LocRibChanged.
\* The code takes the lock anew for each statement (peer.rs 196, 204,
\* 206, 212), so the other peer's statements run in between.
SpkChecks(t) == spk_pc[t] = "l204" /\ spk_pc'[t] # "l204"

SpkEnqueuesLocRibChanged(t) == spk_pc[t] # "l212" /\ spk_pc'[t] = "l212"

C34_InstallToClearIsAtomic ==
    [][\A t \in Peers :
        /\ (SpkChecks(t) /\ spk_added[t] # {}) =>
                /\ \A e \in spk_added[t] : spk_loc_rib[e] = "New"
                /\ spk_pc'[t] = "l206"
        /\ (SpkChecks(t) /\ spk_added[t] = {}) => spk_pc'[t] # "l206"
        /\ SpkEnqueuesLocRibChanged(t) => spk_added[t] # {}]_vars

\* C34, where it breaks: a peer has installed an entry and stands at its
\* check, and the other peer, having written its own batch, has cleared
\* every mark in between: the check finds nothing new and the peer
\* enqueues no LocRibChanged for the entry it added.
C34_MarkClearedByOtherPeer ==
    \E t \in Peers :
        /\ spk_pc[t] = "l204"
        /\ spk_added[t] # {}
        /\ spk_added[t] \subseteq DOMAIN spk_loc_rib
        /\ AllUnchanged(spk_loc_rib)
        /\ spk_added[Remote(t)] # {}
        /\ spk_pc[Remote(t)] = "recv"

\* C34, the part that holds: as long as the other peer has installed
\* nothing, the check of a peer finds New the entry its install added.
C34_AtomicWhenOtherIdle ==
    [][\A t \in Peers :
        (/\ SpkChecks(t)
         /\ spk_added[t] # {}
         /\ spk_added[Remote(t)] = {}) => spk_pc'[t] = "l206"]_vars

====
